---- MODULE Spec2Model ----
(***************************************************************************)
(* Model of the Meteora DAMM V2 position manager: construction of the      *)
(* orchestrator (MeteoraFeeClaimer, src/src/index.ts), its three batch     *)
(* flows claimAllFees, closeAllPositions and closeAllPositionsOptimized,   *)
(* and the claim operation of MeteoraClient (src/src/meteora-client.ts).   *)
(* Remote calls are nondeterministic: each may succeed or fail.            *)
(***************************************************************************)
EXTENDS Integers, Sequences, FiniteSets, TLC

\* Longest position list the ledger enumeration returns in the model.
MaxPositions == 3
\* Number of PRIVATE_KEY slots of the environment the model enumerates
\* (loadWallets scans 10 of them).
NumKeySlots == 2

\* An optional value (number | null) is a sequence of length 0 or 1.
None == <<>>
Some(x) == <<x>>

(***************************************************************************)
(* Data                                                                    *)
(***************************************************************************)
Position(fa, fb, da, db, nft) ==
    [feeOwedA |-> fa, feeOwedB |-> fb, depositA |-> da, depositB |-> db,
     positionNftAccount |-> nft]

\* The position records discovery can return: fees in lamports, deposits in
\* reference-asset units, the NFT account reference present or missing.
PositionValues ==
    { Position(0, 0, 0, 1, TRUE),
      Position(0, 2, 1, 1, TRUE),
      Position(1, 2, 1, 2, TRUE),
      Position(1, 0, 0, 1, FALSE) }

PositionLists == UNION { [1..n -> PositionValues] : n \in 0..MaxPositions }

Flows == {"claimAllFees", "closeAllPositions", "closeAllPositionsOptimized"}
CloseFlows == {"closeAllPositions", "closeAllPositionsOptimized"}

\* Minimum-fee floors (lamports) and deposit ceilings (USD) a command passes.
MinFeeValues == {0, 2}
MaxDepositValues == {None, Some(2)}
\* Prices fetchSOLPrice can return (USD per reference unit).
SolPriceValues == {1, 2}

\* A private key as the environment holds it: unset, or a string in array or
\* base58 format that decodes (or not) to len bytes; keypairOk says whether
\* Keypair.fromSecretKey accepts the decoded bytes.
Key(set, format, decodes, len, inRange, keypairOk) ==
    [set |-> set, format |-> format, decodes |-> decodes, len |-> len,
     inRange |-> inRange, keypairOk |-> keypairOk]

UnsetKey == Key(FALSE, "base58", FALSE, 0, FALSE, FALSE)

KeyValues ==
    { UnsetKey,
      Key(TRUE, "array", TRUE, 64, TRUE, TRUE),
      Key(TRUE, "array", TRUE, 63, TRUE, FALSE),
      Key(TRUE, "array", TRUE, 64, FALSE, FALSE),
      Key(TRUE, "base58", TRUE, 64, TRUE, TRUE),
      Key(TRUE, "base58", TRUE, 32, TRUE, FALSE),
      Key(TRUE, "base58", FALSE, 0, TRUE, FALSE),
      Key(TRUE, "base58", TRUE, 64, TRUE, FALSE) }

EnvValues == [rpcUrl : BOOLEAN, keys : [1..NumKeySlots -> KeyValues]]

\* The environment of a run whose construction succeeded: RPC_URL set and
\* PRIVATE_KEY a valid array-format key.
DefaultEnv ==
    [rpcUrl |-> TRUE,
     keys |-> [s \in 1..NumKeySlots |->
                 IF s = 1 THEN Key(TRUE, "array", TRUE, 64, TRUE, TRUE)
                 ELSE UnsetKey]]

OpKinds == {"claim", "withdrawClose", "close", "swap"}

VARIABLES
    env,                \* process.env: RPC_URL and the PRIVATE_KEY slots
    ctor,               \* "new" | "constructed" | "threw"
    ctorError,          \* message of the constructor's error, "" if none
    availableWallets,   \* key slots loadWallets accepted, in order
    walletInfoFetched,  \* getWalletInfo has called the ledger
    flow,               \* the batch flow of this run
    swapToSOL,
    minFeeThreshold,
    maxDeposit,
    pc,                 \* position of the run in its flow
    discovered,         \* getUserPositions has been called
    allPositions,
    eligiblePositions,
    i,                  \* loop index, 1-based
    totalFeesA,
    totalFeesB,
    successfulOperations,
    lastSignature,      \* last element of the signature list, None if empty
    positionState,      \* what getPositionState returned in this iteration
    hasLiquidity,
    tokenMints,
    claimTxSent,        \* claim transactions sent by the running claimFees
    inflight,           \* mutating operations invoked and not yet returned
    result,             \* the ClaimResult the flow returns
    summary,            \* the counts the flow prints
    invoked,            \* kinds of operation invoked in the running iteration
    opResult,           \* per position: outcome of its loop iteration
    visits,             \* per position: number of loop iterations begun
    claimed,            \* per position: its claim returned a signature
    maxFeeRate,         \* fee-rate ceiling (percent) of the interactive close
    ledgerStates,       \* position states the ledger holds during the run
    userPositions,      \* handleCloseAll: the list discovery returned
    pools,              \* handleCloseAll: per position, what its pool fetch gives
    menuMaxDeposit,     \* handleCloseAll: its deposit ceiling, in SOL
    poolState,          \* the pool state getCurrentFeeRate is called with
    clock,              \* current time: unix timestamp and ledger slot
    feeRate,            \* last result of getCurrentFeeRate, None before
    prevFeeRate,        \* the result before the last one
    solPrice,           \* the price the deposit filter fetched, None before
    retryArgs,          \* retry: maxAttempts and delay of the running call
    attempt,            \* retry: the loop variable
    fnCalls,            \* retry: outcomes of the invocations of fn, in order
    fnRunning,          \* retry: an invocation of fn has not settled yet
    sleeps,             \* retry: the waits made, in order
    retryOutcome,       \* retry: what it returned or raised, None before
    priceResult,        \* fetchSOLPrice: the price it returned, None before
    swapCaller,         \* the function whose swap step runs
    minValueLamports,   \* closeAllPositionsOptimized: its threshold parameter
    swapThreshold,      \* the threshold the swap step gives isWorthSwapping
    swapTokenMints,     \* the mints the swap step goes through
    holdings,           \* per mint: what the wallet and the swap service hold
    tokenIdx,           \* the token the swap step is at, 1-based
    quote,              \* the result of getQuote for the swap, None before
    swapResults,        \* the records the swap step has pushed
    swapInvoked,        \* tokens for which jupiterClient.swap was invoked
    enumeration,        \* getUserPositions: what the protocol enumerates
    discIdx,            \* getUserPositions: the record the loop is at
    positions,          \* getUserPositions: the list being built
    discReturned,       \* getUserPositions: the list returned, None before
    quoteCalls,         \* the getQuote calls discovery made, in order
    poolRequest,        \* getPoolInfo: the address and the ledger's answers
    poolInfoResult,     \* getPoolInfo: what it returned or raised, None before
    claimLog,           \* claimFees: the methods tried in the running call
    claimResult,        \* claimFees: what it returns or raises, None before
    pacedLoop,          \* the loop whose pacing is followed, and its inputs
    trace,              \* the remote calls and the delays of that loop, in order
    closeCall,          \* the running close operation and what the ledger holds
    closeTxSent,        \* transactions that close operation has submitted
    closeResult         \* what that close operation returns or raises

cfgVars == <<env, ctor, ctorError, availableWallets, walletInfoFetched>>
inputVars == <<flow, swapToSOL, minFeeThreshold, maxDeposit, maxFeeRate,
               ledgerStates>>
listVars == <<discovered, allPositions, eligiblePositions>>
accVars == <<totalFeesA, totalFeesB, successfulOperations, lastSignature>>
posVars == <<positionState, hasLiquidity, tokenMints, claimTxSent>>
outVars == <<result, summary>>
ghostVars == <<invoked, opResult, visits, claimed>>
menuVars == <<userPositions, pools, menuMaxDeposit>>
feeVars == <<poolState, clock, feeRate, prevFeeRate>>
retryVars == <<retryArgs, attempt, fnCalls, fnRunning, sleeps, retryOutcome,
               priceResult>>
swapVars == <<swapCaller, minValueLamports, swapThreshold, swapTokenMints,
              holdings, tokenIdx, quote, swapResults, swapInvoked>>
discVars == <<enumeration, discIdx, positions, discReturned, quoteCalls>>
poolVars == <<poolRequest, poolInfoResult>>
claimVars == <<claimLog, claimResult>>
paceVars == <<pacedLoop, trace>>
closeOpVars == <<closeCall, closeTxSent, closeResult>>
callVars == <<retryVars, swapVars, discVars, poolVars, paceVars, closeOpVars>>
otherHelperVars ==
    <<swapVars, discVars, poolVars, claimVars, paceVars, closeOpVars>>
helperVars == <<retryVars, otherHelperVars>>
vars == <<cfgVars, inputVars, listVars, accVars, posVars, outVars, ghostVars,
          helperVars, menuVars, feeVars, solPrice, pc, i, inflight>>

Indices == 1..MaxPositions

NoResult == [pending |-> TRUE]
Failure(msg) == [success |-> FALSE, error |-> msg]
Success(sig, fa, fb) ==
    [success |-> TRUE, signature |-> sig, feesA |-> fa, feesB |-> fb]

(***************************************************************************)
(* Pure helpers                                                            *)
(***************************************************************************)
RECURSIVE Filter(_, _)
\* Array.prototype.filter: the elements of s whose flag in keep is TRUE, in
\* the order of s; keep[k] is the callback's result for s[k].
Filter(s, keep) ==
    IF s = <<>> THEN <<>>
    ELSE (IF Head(keep) THEN <<Head(s)>> ELSE <<>>)
           \o Filter(Tail(s), Tail(keep))

\* A minimum-fee filter that drops a fee sum equal to the floor.
MeetsMinFeeExclusive(p, floor) == p.feeOwedA + p.feeOwedB > floor

\* The minimum-fee filter of claimAllFees.
MeetsMinFee(p, floor) == p.feeOwedA + p.feeOwedB >= floor

\* A deposit filter that drops a deposit sum equal to the ceiling.
WithinDepositExclusive(p, arg) == (p.depositA + p.depositB) * arg[2] < arg[1]

\* The deposit filter of the close flows: totalDeposit <= maxDeposit / solPrice,
\* stated without the division (solPrice > 0). arg = <<maxDeposit, solPrice>>.
WithinDeposit(p, arg) == (p.depositA + p.depositB) * arg[2] <= arg[1]

\* What getPositionState returns: null when the fetch failed, else the
\* position's state, of which only whether each liquidity is non-zero matters.
PositionState(fetched, unlocked, vested, permanentLocked) ==
    [fetched |-> fetched, unlocked |-> unlocked, vested |-> vested,
     permanentLocked |-> permanentLocked]

NullPositionState == PositionState(FALSE, FALSE, FALSE, FALSE)

PositionStateValues ==
    { NullPositionState,
      PositionState(TRUE, FALSE, FALSE, FALSE),
      PositionState(TRUE, TRUE, FALSE, FALSE),
      PositionState(TRUE, FALSE, TRUE, FALSE),
      PositionState(TRUE, FALSE, FALSE, TRUE) }

\* The position states of the batch runs in which only the presence of
\* liquidity matters: no liquidity, and unlocked liquidity.
BatchLedgerStates ==
    { PositionState(TRUE, FALSE, FALSE, FALSE),
      PositionState(TRUE, TRUE, FALSE, FALSE) }

\* A liquidity test that overlooks the permanently locked liquidity.
HasLiquidityUnlockedOrVested(st) == st.fetched /\ (st.unlocked \/ st.vested)

\* positionState && (!unlockedLiquidity.isZero() || !vestedLiquidity.isZero()
\* || !permanentLockedLiquidity.isZero())
HasLiquidity(st) ==
    st.fetched /\ (st.unlocked \/ st.vested \/ st.permanentLocked)

\* claimableFeesA > 0 || claimableFeesB > 0
HasClaimableFees(p) == p.feeOwedA > 0 \/ p.feeOwedB > 0

\* !position.positionNftAccount
MissingNft(p) == ~p.positionNftAccount

\* isValidPrivateKey: array format needs 64 numbers in 0..255, base58 format
\* needs a decodable string of 64 bytes; a parse or decode error gives false.
IsValidPrivateKey(k) ==
    IF k.format = "array"
    THEN k.decodes /\ k.len = 64 /\ k.inRange
    ELSE k.decodes /\ k.len = 64

\* normalizePrivateKey returns the bytes, or throws.
NormalizeSucceeds(k) ==
    IF k.format = "array" THEN k.decodes /\ k.len = 64 ELSE k.decodes

\* One iteration of the loop of loadWallets: the slot yields a wallet.
SlotYieldsWallet(slot, e) ==
    LET k == e.keys[slot] IN
    /\ k.set
    /\ IsValidPrivateKey(k)
    /\ NormalizeSucceeds(k)
    /\ k.keypairOk

\* A loadWallets whose loop is ended by the first key that is set and not
\* accepted.
LoadWalletsStopsAtInvalid(e) ==
    IF \E s \in 1..NumKeySlots : e.keys[s].set /\ ~SlotYieldsWallet(s, e)
    THEN <<>>
    ELSE Filter([s \in 1..NumKeySlots |-> s],
                [s \in 1..NumKeySlots |-> SlotYieldsWallet(s, e)])

\* loadWallets: the accepted slots, in slot order.
LoadWallets(e) ==
    Filter([s \in 1..NumKeySlots |-> s],
           [s \in 1..NumKeySlots |-> SlotYieldsWallet(s, e)])

(***************************************************************************)
(* getCurrentFeeRate                                                       *)
(***************************************************************************)
\* const FEE_DENOMINATOR = 1000000000
FEE_DENOMINATOR == 1000000000
\* activationPoint > 1000000000: the activation point is a unix timestamp,
\* otherwise a slot number.
TimestampThreshold == 1000000000
\* reductionRate = reductionFactor / 10000
BasisPoints == 10000
\* return 25: the rate returned without fee-schedule data or after an error.
FallbackFeeRate == 25

\* A percentage is held as a whole number of units of 1e-7 percent, so that
\* every rate the schedules below produce is an integer.
PercentUnit == FEE_DENOMINATOR \div 100

\* poolFees.baseFee as the SDK decodes it: the 64-bit fields are big-number
\* objects, so that a zero is not replaced by the || default, which applies
\* to a missing field only. A missing field other than periodFrequency
\* defaults to 0 and is the same as a zero; periodFrequency is None when it
\* is missing.
BaseFee(cliff, periods, reduction, frequency, mode) ==
    [cliffFeeNumerator |-> cliff, numberOfPeriod |-> periods,
     reductionFactor |-> reduction, periodFrequency |-> frequency,
     feeSchedulerMode |-> mode]

NoBaseFee == BaseFee(0, 0, 0, Some(0), 0)

\* What getCurrentFeeRate is called with: kind "null" is a missing pool state,
\* "noBaseFee" a pool state without poolFees.baseFee.
PoolState(kind, baseFee, activationPoint) ==
    [kind |-> kind, baseFee |-> baseFee, activationPoint |-> activationPoint]

NullPoolState == PoolState("null", NoBaseFee, 0)

\* Activation points: a unix timestamp and a slot number.
ActivationPoints == {1700000000, 1000000}

\* Schedules in linear mode (0) and in an unknown mode (2).
LinearSchedules ==
    { BaseFee(cliff, periods, reduction, frequency, mode) :
        cliff \in {0, 500000000}, periods \in {0, 2, 10},
        reduction \in {0, 50000000},
        frequency \in {None, Some(0), Some(3600)}, mode \in {0, 2} }

\* Schedules in exponential mode (1); the reduction factor is in basis
\* points, also above 10000.
ExponentialSchedules ==
    { BaseFee(cliff, periods, reduction, frequency, 1) :
        cliff \in {0, 500000000}, periods \in {0, 2, 3},
        reduction \in {0, 2500, 5000, 10000, 15000, 25000},
        frequency \in {None, Some(0), Some(3600)} }

PoolStateValues ==
    {NullPoolState}
    \cup { PoolState("noBaseFee", NoBaseFee, a) : a \in ActivationPoints }
    \cup { PoolState("scheduled", b, a) :
             b \in LinearSchedules \cup ExponentialSchedules,
             a \in ActivationPoints }

\* Time or slots elapsed since the activation point; negative before it.
ElapsedValues == {-72000, -1800, 0, 1800, 3600, 7200, 10800, 36000, 72000}

\* The clock when e seconds, and e slots, have passed since the two
\* activation points.
ClockAt(e) == [timestamp |-> 1700000000 + e, slot |-> 1000000 + e]

ClockValues == { ClockAt(e) : e \in ElapsedValues }

IsTimestamp(ps) == ps.activationPoint > TimestampThreshold

\* currentTimestamp - activationPoint, or currentSlot - activationPoint.
Elapsed(ps, clk) ==
    IF IsTimestamp(ps) THEN clk.timestamp - ps.activationPoint
    ELSE clk.slot - ps.activationPoint

\* Number(baseFee.periodFrequency || 1)
PeriodFrequency(b) ==
    IF b.periodFrequency = None THEN 1 ELSE b.periodFrequency[1]

\* Elapsed periods that count a period as soon as it has begun.
ElapsedPeriodsRoundedUp(ps, clk) ==
    IF PeriodFrequency(ps.baseFee) > 0
    THEN (Elapsed(ps, clk) + PeriodFrequency(ps.baseFee) - 1)
           \div PeriodFrequency(ps.baseFee)
    ELSE 0

\* periodFrequency > 0 ? Math.floor(elapsed / periodFrequency) : 0
ElapsedPeriods(ps, clk) ==
    IF PeriodFrequency(ps.baseFee) > 0
    THEN Elapsed(ps, clk) \div PeriodFrequency(ps.baseFee)
    ELSE 0

Min(a, b) == IF a <= b THEN a ELSE b
Max(a, b) == IF a >= b THEN a ELSE b

\* Periods applied without the cap at numberOfPeriod.
EffectivePeriodsUncapped(ps, clk) == ElapsedPeriods(ps, clk)

\* Math.min(elapsedPeriods, numberOfPeriod)
EffectivePeriods(ps, clk) ==
    Min(ElapsedPeriods(ps, clk), ps.baseFee.numberOfPeriod)

RECURSIVE Decayed(_, _, _)
\* n * Math.pow(1 - reduction / 10000, periods) for periods >= 0, one factor
\* at a time; exact for the schedules enumerated, whose numerators stay
\* multiples of 10000.
Decayed(n, reduction, periods) ==
    IF periods <= 0 THEN n
    ELSE Decayed((n \div BasisPoints) * (BasisPoints - reduction),
                 reduction, periods - 1)

\* A linear mode that adds the reduction of each period to the cliff fee.
CurrentFeeNumeratorGrowing(ps, clk) ==
    LET b == ps.baseFee IN
    IF b.feeSchedulerMode = 0
    THEN b.cliffFeeNumerator + EffectivePeriods(ps, clk) * b.reductionFactor
    ELSE b.cliffFeeNumerator

\* currentFeeNumerator, by scheduler mode.
CurrentFeeNumerator(ps, clk) ==
    LET b == ps.baseFee
        effectivePeriods == EffectivePeriods(ps, clk)
    IN  IF b.feeSchedulerMode = 0
        THEN Max(0, b.cliffFeeNumerator - effectivePeriods * b.reductionFactor)
        ELSE IF b.feeSchedulerMode = 1
             THEN Decayed(b.cliffFeeNumerator, b.reductionFactor,
                          effectivePeriods)
             ELSE b.cliffFeeNumerator

\* (currentFeeNumerator / FEE_DENOMINATOR) * 100, in percent units.
FeePercentage(numerator) ==
    numerator * ((100 * PercentUnit) \div FEE_DENOMINATOR)

\* A getCurrentFeeRate whose errors are not turned into the fallback rate.
RateComputationFailsNever(ps, slotOk) == FALSE

\* The body of the try block raises an error: the pool state is null, or the
\* slot fetch of a slot-based schedule fails.
RateComputationFails(ps, slotOk) ==
    \/ ps.kind = "null"
    \/ ps.kind = "scheduled" /\ ~IsTimestamp(ps) /\ ~slotOk

\* getCurrentFeeRate(poolState), in percent units; slotOk is the outcome of
\* connection.getSlot().
GetCurrentFeeRate(ps, clk, slotOk) ==
    IF RateComputationFails(ps, slotOk) THEN FallbackFeeRate * PercentUnit
    ELSE IF ps.kind = "scheduled"
         THEN Max(0, FeePercentage(CurrentFeeNumerator(ps, clk)))
         ELSE FallbackFeeRate * PercentUnit

\* One recorded result of getCurrentFeeRate: the rate, the clock it was
\* computed at, and whether the slot fetch succeeded.
RateResult(rate, at, slotOk) == [rate |-> rate, at |-> at, slotOk |-> slotOk]

\* No getCurrentFeeRate call is being observed.
InitFeeIdle ==
    /\ poolState = NullPoolState
    /\ clock = ClockAt(0)
    /\ feeRate = None
    /\ prevFeeRate = None

(***************************************************************************)
(* Utilities: retry and fetchSOLPrice                                      *)
(***************************************************************************)
\* How an invocation of fn settles: it returns value, or it throws; thrown is
\* "Error" for an Error object and "other" for any other thrown value, and
\* value then identifies what was thrown.
Outcome(ok, value, thrown) == [ok |-> ok, value |-> value, thrown |-> thrown]

Returns(value) == Outcome(TRUE, value, "none")
Throws(id, thrown) == Outcome(FALSE, id, thrown)

\* new Error('Unknown error'), which replaces a thrown value that is not an
\* Error object.
UnknownError == Throws(0, "Error")

\* error instanceof Error ? error : new Error('Unknown error')
AsError(o) == IF o.thrown = "Error" THEN o ELSE UnknownError

RetryArgs(maxAttempts, delay) == [maxAttempts |-> maxAttempts, delay |-> delay]

\* No retry is running.
InitRetryIdle ==
    /\ retryArgs = RetryArgs(0, 0)
    /\ attempt = 1
    /\ fnCalls = <<>>
    /\ fnRunning = FALSE
    /\ sleeps = <<>>
    /\ retryOutcome = None
    /\ priceResult = None

\* Bound of the model: the largest maxAttempts a caller passes to retry.
MaxRetryAttempts == 3

MaxAttemptsValues == 0..MaxRetryAttempts
DelayValues == {500, 1000}

\* What the fn of a caller of retry can do.
FnOutcomes ==
    { Returns(1), Returns(2),
      Throws(1, "Error"), Throws(2, "Error"), Throws(3, "other") }

\* lastError when the loop body never ran: the variable is unassigned.
Unassigned == Throws(0, "undefined")

\* sleep(delay * attempt)
Backoff(delay, n) == delay * n

\* retry is between two invocations, in its sleep.
Sleeping == retryOutcome = None /\ Len(sleeps) = attempt

\* The loop of retry calls fn.
RetryInvokeFn ==
    /\ pc \in {"retry", "price", "poolInfo"}
    /\ retryOutcome = None
    /\ ~fnRunning
    /\ ~Sleeping
    /\ attempt <= retryArgs.maxAttempts
    /\ fnRunning' = TRUE
    /\ UNCHANGED <<retryArgs, attempt, fnCalls, sleeps, retryOutcome,
                   priceResult>>
    /\ UNCHANGED <<cfgVars, inputVars, listVars, accVars, posVars, outVars,
                   ghostVars, otherHelperVars, menuVars, feeVars,
                   solPrice, pc, i, inflight>>

\* The invocation of fn settles as o: retry returns its value, or, in the
\* catch block, raises on the last attempt and starts its sleep otherwise.
RetrySettles(o) ==
    /\ fnRunning
    /\ fnRunning' = FALSE
    /\ fnCalls' = Append(fnCalls, o)
    /\ IF o.ok
       THEN /\ retryOutcome' = Some(o)
            /\ UNCHANGED sleeps
       ELSE IF attempt = retryArgs.maxAttempts
            THEN /\ retryOutcome' = Some(AsError(o))
                 /\ UNCHANGED sleeps
            ELSE /\ sleeps' = Append(sleeps, Backoff(retryArgs.delay, attempt))
                 /\ UNCHANGED retryOutcome
    /\ UNCHANGED <<retryArgs, attempt, priceResult>>
    /\ UNCHANGED <<cfgVars, inputVars, listVars, accVars, posVars, outVars,
                   ghostVars, otherHelperVars, menuVars, feeVars,
                   solPrice, pc, i, inflight>>

\* The fn of a caller settles.
FnSettles ==
    /\ pc = "retry"
    /\ \E o \in FnOutcomes : RetrySettles(o)

\* The sleep ends and the loop goes to its next attempt.
SleepEnds ==
    /\ pc \in {"retry", "price", "poolInfo"}
    /\ Sleeping
    /\ attempt' = attempt + 1
    /\ UNCHANGED <<retryArgs, fnCalls, fnRunning, sleeps, retryOutcome,
                   priceResult>>
    /\ UNCHANGED <<cfgVars, inputVars, listVars, accVars, posVars, outVars,
                   ghostVars, otherHelperVars, menuVars, feeVars,
                   solPrice, pc, i, inflight>>

\* The loop ended without running its body: throw lastError.
RetryFallsThrough ==
    /\ pc \in {"retry", "price", "poolInfo"}
    /\ retryOutcome = None
    /\ ~fnRunning
    /\ ~Sleeping
    /\ attempt > retryArgs.maxAttempts
    /\ retryOutcome' = Some(Unassigned)
    /\ UNCHANGED <<retryArgs, attempt, fnCalls, fnRunning, sleeps, priceResult>>
    /\ UNCHANGED <<cfgVars, inputVars, listVars, accVars, posVars, outVars,
                   ghostVars, otherHelperVars, menuVars, feeVars,
                   solPrice, pc, i, inflight>>

\* fetchSOLPrice: the fallback price and the arguments it gives retry.
fallbackPrice == 200
PriceRetryAttempts == 2
PriceRetryDelay == 1000

\* What a price request can come to: the request is aborted at its timeout,
\* it fails in transport, the status (kept in usd) is not ok, the body is not
\* JSON, the body lacks a numeric solana.usd, or it carries the number usd.
PriceResponse(kind, usd) == [kind |-> kind, usd |-> usd]

PriceResponses ==
    { PriceResponse("aborted", 0), PriceResponse("network", 0),
      PriceResponse("httpError", 429), PriceResponse("httpError", 500),
      PriceResponse("badJson", 0), PriceResponse("noPrice", 0) }
      \cup { PriceResponse("price", usd) : usd \in {-5, 0, 150, 250} }

\* Identifies the error a failed request throws; a missing and a non-positive
\* price throw the same error.
PriceErrorId(r) ==
    CASE r.kind = "aborted" -> 1
      [] r.kind = "network" -> 2
      [] r.kind = "badJson" -> 3
      [] r.kind = "httpError" -> r.usd
      [] OTHER -> 4

\* A request closure that takes a price of zero.
PriceFnAcceptsZero(r) ==
    IF r.kind = "price" /\ r.usd >= 0
    THEN Returns(r.usd)
    ELSE Throws(PriceErrorId(r), "Error")

\* The closure fetchSOLPrice gives retry: the price when the body carries a
\* positive number, an error otherwise.
PriceFn(r) ==
    IF r.kind = "price" /\ r.usd > 0
    THEN Returns(r.usd)
    ELSE Throws(PriceErrorId(r), "Error")

\* fetchSOLPrice calls retry.
FetchSOLPriceBegin ==
    /\ pc = "priceStart"
    /\ pc' = "price"
    /\ retryArgs' = RetryArgs(PriceRetryAttempts, PriceRetryDelay)
    /\ UNCHANGED <<attempt, fnCalls, fnRunning, sleeps, retryOutcome,
                   priceResult>>
    /\ UNCHANGED <<cfgVars, inputVars, listVars, accVars, posVars, outVars,
                   ghostVars, otherHelperVars, menuVars, feeVars,
                   solPrice, i, inflight>>

\* A price request settles.
PriceRequestSettles ==
    /\ pc = "price"
    /\ \E r \in PriceResponses : RetrySettles(PriceFn(r))

\* retry has returned or raised: fetchSOLPrice returns the price, or the
\* fallback price from its catch block.
FetchSOLPriceReturn ==
    /\ pc = "price"
    /\ retryOutcome # None
    /\ priceResult' = Some(IF retryOutcome[1].ok THEN retryOutcome[1].value
                                                ELSE fallbackPrice)
    /\ pc' = "priceDone"
    /\ UNCHANGED <<retryArgs, attempt, fnCalls, fnRunning, sleeps, retryOutcome>>
    /\ UNCHANGED <<cfgVars, inputVars, listVars, accVars, posVars, outVars,
                   ghostVars, otherHelperVars, menuVars, feeVars,
                   solPrice, i, inflight>>

(***************************************************************************)
(* The swap step: swapTokensToSOL and the swap part of claimFeesAndSwap    *)
(***************************************************************************)
\* The mint of the reference asset (SOL_MINT and WSOL_MINT are this address).
SOL_MINT == "So11111111111111111111111111111111111111112"

\* The threshold swapTokensToSOL takes when its caller passes none, and the
\* literal claimFeesAndSwap gives isWorthSwapping.
DefaultMinValueLamports == 150000

\* The values --min-value takes in the model.
MinValueValues == {DefaultMinValueLamports, 1000000}

\* What the wallet and the swap service hold for one token: the associated
\* token account exists or getAccount throws, its balance, the outAmount of
\* the quote isWorthSwapping requests and the outAmount of the quote
\* requested afterwards for the swap (None when getQuote returns null), and
\* whether the swap succeeds.
Holding(account, balance, checkQuote, execQuote, swapOk) ==
    [account |-> account, balance |-> balance, checkQuote |-> checkQuote,
     execQuote |-> execQuote, swapOk |-> swapOk]

NoHolding == Holding(FALSE, 0, None, None, FALSE)

\* Quoted values in lamports: below, at and above the default threshold and
\* below the larger --min-value.
QuoteValues == {None, Some(100000), Some(150000), Some(500000)}

\* The outAmount of the second quote: the service may answer it differently
\* from the first.
ExecQuoteValues == {Some(100000), Some(150000)}

HoldingValues ==
    { NoHolding, Holding(TRUE, 0, None, None, FALSE) }
    \cup { Holding(TRUE, 7, q, None, FALSE) : q \in QuoteValues }
    \cup { Holding(TRUE, 7, q, x, ok) :
             q \in QuoteValues, x \in ExecQuoteValues, ok \in BOOLEAN }

\* The two mints of a pool: at most one of them is the reference asset.
TokenMintLists ==
    { <<a, b>> : a \in {SOL_MINT, "mintA"}, b \in {SOL_MINT, "mintB"} }
    \ { <<SOL_MINT, SOL_MINT>> }

SwapCallers == {"swapTokensToSOL", "claimFeesAndSwap"}

\* An element of the result list of a swap step.
SwapRecord(mint, success, error, skipped) ==
    [mint |-> mint, success |-> success, error |-> error, skipped |-> skipped]

IsSwappableToken(mint) == mint # SOL_MINT

IsWorthSwappingExclusive(mint, checkQuote, minValue) ==
    /\ IsSwappableToken(mint)
    /\ checkQuote # None
    /\ checkQuote[1] > minValue

\* isWorthSwapping: a swappable token whose quote is available and whose
\* outAmount reaches the threshold.
IsWorthSwapping(mint, checkQuote, minValue) ==
    /\ IsSwappableToken(mint)
    /\ checkQuote # None
    /\ checkQuote[1] >= minValue

\* No swap step is running.
InitSwapIdle ==
    /\ swapCaller = "swapTokensToSOL"
    /\ minValueLamports = DefaultMinValueLamports
    /\ swapThreshold = DefaultMinValueLamports
    /\ swapTokenMints = <<>>
    /\ holdings = <<>>
    /\ tokenIdx = 1
    /\ quote = None
    /\ swapResults = <<>>
    /\ swapInvoked = {}

SwapIdleVars ==
    <<cfgVars, inputVars, listVars, accVars, posVars, outVars, ghostVars,
      retryVars, discVars, poolVars, claimVars, paceVars, closeOpVars, menuVars, feeVars, solPrice, i, inflight>>

\* Step 3 of closeAllPositionsOptimized calls swapTokensToSOL(wallet,
\* tokenMints, slippageBps): the threshold parameter takes its default.
\* claimFeesAndSwap starts its swaps with the literal 150000.
SwapStepBegin ==
    /\ pc = "swapStart"
    /\ swapThreshold' = DefaultMinValueLamports
    /\ tokenIdx' = 1
    /\ swapResults' = <<>>
    /\ pc' = "token"
    /\ UNCHANGED <<swapCaller, minValueLamports, swapTokenMints, holdings,
                   quote, swapInvoked>>
    /\ UNCHANGED SwapIdleVars

\* The end of the handling of one token: the next token's turn.
NextToken ==
    /\ tokenIdx' = tokenIdx + 1
    /\ quote' = None
    /\ pc' = "token"

Push(record) == swapResults' = Append(swapResults, record)

Mint == swapTokenMints[tokenIdx]
Held == holdings[tokenIdx]

\* A token that is the reference asset is passed over.
SkipReferenceToken ==
    /\ pc = "token"
    /\ tokenIdx <= Len(swapTokenMints)
    /\ ~IsSwappableToken(Mint)
    /\ NextToken
    /\ UNCHANGED <<swapCaller, minValueLamports, swapThreshold,
                   swapTokenMints, holdings, swapResults, swapInvoked>>
    /\ UNCHANGED SwapIdleVars

\* getAccount and the balance: a missing account throws into the token's
\* catch block, which records the failure; a zero balance records nothing.
\* With a positive balance swapTokensToSOL goes on to isWorthSwapping and
\* claimFeesAndSwap to getQuote.
GetTokenAccount ==
    /\ pc = "token"
    /\ tokenIdx <= Len(swapTokenMints)
    /\ IsSwappableToken(Mint)
    /\ IF ~Held.account
       THEN /\ Push(SwapRecord(Mint, FALSE, "getAccount", FALSE))
            /\ NextToken
       ELSE IF Held.balance > 0
       THEN /\ pc' = IF swapCaller = "swapTokensToSOL" THEN "worth" ELSE "quote"
            /\ UNCHANGED <<tokenIdx, quote, swapResults>>
       ELSE /\ NextToken
            /\ UNCHANGED swapResults
    /\ UNCHANGED <<swapCaller, minValueLamports, swapThreshold,
                   swapTokenMints, holdings, swapInvoked>>
    /\ UNCHANGED SwapIdleVars

\* isWorthSwapping returned. A token not worth swapping is recorded as
\* skipped. In claimFeesAndSwap the quote was requested before: the swap
\* follows when it is available, and nothing is recorded when it is not.
WorthChecked ==
    /\ pc = "worth"
    /\ IF ~IsWorthSwapping(Mint, Held.checkQuote, swapThreshold)
       THEN /\ Push(SwapRecord(Mint, FALSE, "Below minimum value threshold",
                               TRUE))
            /\ NextToken
       ELSE IF swapCaller = "swapTokensToSOL"
       THEN /\ pc' = "quote"
            /\ UNCHANGED <<tokenIdx, quote, swapResults>>
       ELSE IF quote # None /\ quote[1] # None
       THEN /\ pc' = "execute"
            /\ UNCHANGED <<tokenIdx, quote, swapResults>>
       ELSE /\ NextToken
            /\ UNCHANGED swapResults
    /\ UNCHANGED <<swapCaller, minValueLamports, swapThreshold,
                   swapTokenMints, holdings, swapInvoked>>
    /\ UNCHANGED SwapIdleVars

\* getQuote for the swap returned. In swapTokensToSOL the swap follows when
\* the quote is available and 'Could not get quote' is recorded when it is
\* not; in claimFeesAndSwap isWorthSwapping is called next.
QuoteFetched ==
    /\ pc = "quote"
    /\ IF swapCaller = "claimFeesAndSwap"
       THEN /\ quote' = Some(Held.execQuote)
            /\ pc' = "worth"
            /\ UNCHANGED <<tokenIdx, swapResults>>
       ELSE IF Held.execQuote # None
       THEN /\ quote' = Some(Held.execQuote)
            /\ pc' = "execute"
            /\ UNCHANGED <<tokenIdx, swapResults>>
       ELSE /\ Push(SwapRecord(Mint, FALSE, "Could not get quote", FALSE))
            /\ NextToken
    /\ UNCHANGED <<swapCaller, minValueLamports, swapThreshold,
                   swapTokenMints, holdings, swapInvoked>>
    /\ UNCHANGED SwapIdleVars

\* jupiterClient.swap is invoked and returns its result, which is recorded
\* (swap catches its own errors and returns success: false).
SwapExecute ==
    /\ pc = "execute"
    /\ swapInvoked' = swapInvoked \cup {tokenIdx}
    /\ Push(SwapRecord(Mint, Held.swapOk,
                       IF Held.swapOk THEN "" ELSE "swap", FALSE))
    /\ NextToken
    /\ UNCHANGED <<swapCaller, minValueLamports, swapThreshold,
                   swapTokenMints, holdings>>
    /\ UNCHANGED SwapIdleVars

\* Every token had its turn: the results are returned.
SwapStepReturn ==
    /\ pc = "token"
    /\ tokenIdx > Len(swapTokenMints)
    /\ pc' = "swapDone"
    /\ UNCHANGED swapVars
    /\ UNCHANGED SwapIdleVars

(***************************************************************************)
(* Discovery: getQuote and getUserPositions                                *)
(***************************************************************************)
LAMPORTS_PER_SOL == 1000000000

\* amount / 1e9; the amounts of the model are multiples of 1e9.
ToSOL(lamports) == lamports \div LAMPORTS_PER_SOL

\* What the quote API does with a request: a quote with its outAmount, or a
\* failure (no route, timeout, transport error).
QuoteResponse(kind, outAmount) == [kind |-> kind, outAmount |-> outAmount]

QuoteResponses ==
    { QuoteResponse("ok", LAMPORTS_PER_SOL),
      QuoteResponse("noRoute", 0),
      QuoteResponse("timeout", 0),
      QuoteResponse("network", 0) }

GetQuoteRethrowsTimeout(r) ==
    IF r.kind = "ok" THEN Returns(Some(r.outAmount))
    ELSE IF r.kind = "timeout" THEN Throws(1, "Error")
    ELSE Returns(None)

\* getQuote: response.data when the request succeeds, null from its catch
\* block otherwise.
GetQuote(r) ==
    IF r.kind = "ok" THEN Returns(Some(r.outAmount)) ELSE Returns(None)

\* A position as the protocol enumerates it, with what the ledger gives for
\* it: fetchPoolState returns a state ("ok"), returns nothing ("missing") or
\* throws ("throws"); which of the pool's tokens is SOL ("A", "B", "none");
\* the unclaimed fees and the withdrawable amounts in raw units.
LedgerRecord(pool, sol, rawFeeOwedA, rawFeeOwedB, depositA, depositB) ==
    [pool |-> pool, sol |-> sol, rawFeeOwedA |-> rawFeeOwedA,
     rawFeeOwedB |-> rawFeeOwedB, depositA |-> depositA, depositB |-> depositB]

LedgerRecordValues ==
    { LedgerRecord("ok", "B", 3, 5, 2 * LAMPORTS_PER_SOL, LAMPORTS_PER_SOL),
      LedgerRecord("ok", "A", 3, 5, LAMPORTS_PER_SOL, 2 * LAMPORTS_PER_SOL),
      LedgerRecord("ok", "none", 3, 0, 0, 2 * LAMPORTS_PER_SOL),
      LedgerRecord("ok", "B", 0, 0, 0, 0),
      LedgerRecord("missing", "B", 3, 5, 0, LAMPORTS_PER_SOL),
      LedgerRecord("throws", "A", 3, 5, LAMPORTS_PER_SOL, 0) }

\* What getPositionsByUser gives: it throws, or it returns a list.
Enumeration(ok, records) == [ok |-> ok, records |-> records]

EnumerationValues ==
    { Enumeration(FALSE, <<>>) }
    \cup { Enumeration(TRUE, l) :
             l \in UNION { [1..n -> LedgerRecordValues] : n \in 0..MaxPositions } }

\* An element of the list getUserPositions returns; publicKey is the place
\* of the position in the enumeration.
PositionRecord(publicKey, feeOwedA, feeOwedB, depositA, depositB) ==
    [publicKey |-> publicKey, feeOwedA |-> feeOwedA, feeOwedB |-> feeOwedB,
     depositA |-> depositA, depositB |-> depositB]

\* A call of getQuote during discovery: the position and token it was for,
\* the amount, the response of the API and the outcome of the call.
QuoteCall(position, token, amount, response, outcome) ==
    [position |-> position, token |-> token, amount |-> amount,
     response |-> response, outcome |-> outcome]

FeeInLamportsAnyToken(rawFee, isSOL) == IF rawFee > 0 THEN rawFee ELSE 0

\* The fee recorded for a token: the raw amount when it is positive and the
\* token is SOL, 0 otherwise.
FeeInLamports(rawFee, isSOL) == IF rawFee > 0 /\ isSOL THEN rawFee ELSE 0

\* depositAInSOL: counted only when token A is SOL.
DepositAInSOL(rec) ==
    IF rec.sol = "A" /\ rec.depositA > 0 THEN ToSOL(rec.depositA) ELSE 0

BreakLoop(idx, n) == n + 1

\* continue, and the end of the loop body: the next record of the list of n.
ContinueLoop(idx, n) == idx + 1

\* No discovery is running.
InitDiscoveryIdle ==
    /\ enumeration = Enumeration(TRUE, <<>>)
    /\ discIdx = 1
    /\ positions = <<>>
    /\ discReturned = None
    /\ quoteCalls = <<>>

DiscoveryIdleVars ==
    <<cfgVars, inputVars, listVars, accVars, posVars, outVars, ghostVars,
      retryVars, swapVars, poolVars, claimVars, paceVars, closeOpVars, menuVars, feeVars, solPrice, i, inflight>>

Records == enumeration.records
Rec == Records[discIdx]

\* getUserPositions fetches the enumeration: an error or an empty list
\* returns [], otherwise the loop starts.
GetUserPositionsBegin ==
    /\ pc = "discStart"
    /\ IF ~enumeration.ok \/ Len(Records) = 0
       THEN /\ discReturned' = Some(<<>>)
            /\ pc' = "discDone"
       ELSE /\ pc' = "discLoop"
            /\ UNCHANGED discReturned
    /\ discIdx' = 1
    /\ positions' = <<>>
    /\ UNCHANGED <<enumeration, quoteCalls>>
    /\ UNCHANGED DiscoveryIdleVars

\* The record under construction once the quote for token B, if one was
\* needed, gave depositBInSOL.
Discovered(depositBInSOL) ==
    PositionRecord(discIdx,
                   FeeInLamports(Rec.rawFeeOwedA, Rec.sol = "A"),
                   FeeInLamports(Rec.rawFeeOwedB, Rec.sol = "B"),
                   DepositAInSOL(Rec),
                   depositBInSOL)

\* One loop iteration up to the deposit of token B: a missing pool state or an
\* error skips the record; when token B is SOL the record is complete and is
\* pushed; otherwise a quote is requested.
ProcessPosition ==
    /\ pc = "discLoop"
    /\ discIdx <= Len(Records)
    /\ IF Rec.pool # "ok"
       THEN /\ discIdx' = ContinueLoop(discIdx, Len(Records))
            /\ UNCHANGED <<positions, pc>>
       ELSE IF Rec.sol = "B"
       THEN /\ positions' = Append(positions, Discovered(ToSOL(Rec.depositB)))
            /\ discIdx' = ContinueLoop(discIdx, Len(Records))
            /\ UNCHANGED pc
       ELSE /\ pc' = "discQuote"
            /\ UNCHANGED <<positions, discIdx>>
    /\ UNCHANGED <<enumeration, discReturned, quoteCalls>>
    /\ UNCHANGED DiscoveryIdleVars

\* The quote request for the deposit of token B settles: the deposit is the
\* quoted outAmount in SOL, and stays 0 when getQuote returns null (or
\* throws, which the empty catch block swallows). The record is pushed.
DepositQuoteSettles ==
    /\ pc = "discQuote"
    /\ \E r \in QuoteResponses :
         LET o == GetQuote(r)
             depositBInSOL == IF o.ok /\ o.value # None
                              THEN ToSOL(o.value[1]) ELSE 0
         IN /\ quoteCalls' = Append(quoteCalls,
                                    QuoteCall(discIdx, "B", Rec.depositB, r, o))
            /\ positions' = Append(positions, Discovered(depositBInSOL))
    /\ discIdx' = ContinueLoop(discIdx, Len(Records))
    /\ pc' = "discLoop"
    /\ UNCHANGED <<enumeration, discReturned>>
    /\ UNCHANGED DiscoveryIdleVars

\* The loop is over: the list is returned.
GetUserPositionsReturn ==
    /\ pc = "discLoop"
    /\ discIdx > Len(Records)
    /\ discReturned' = Some(positions)
    /\ pc' = "discDone"
    /\ UNCHANGED <<enumeration, discIdx, positions, quoteCalls>>
    /\ UNCHANGED DiscoveryIdleVars

(***************************************************************************)
(* MeteoraFeeClaimer.getPoolInfo                                           *)
(***************************************************************************)
\* retry(fn) with its default arguments.
DefaultRetryAttempts == 3
DefaultRetryDelay == 1000

\* What cpAmm.fetchPoolState does on one call: it returns the state ("ok"),
\* returns nothing ("missing") or throws ("throws").
FetchOutcomes == {"ok", "missing", "throws"}

\* A call of getPoolInfo: whether the address is a valid public key, and
\* what the k-th fetch of the pool state would give.
PoolRequest(valid, plan) == [valid |-> valid, plan |-> plan]

PoolRequestValues ==
    { PoolRequest(v, p) :
        v \in BOOLEAN, p \in [1..DefaultRetryAttempts -> FetchOutcomes] }

\* MeteoraClient.getPoolInfo, the fn given to retry: the pool info, or null
\* when the state is missing and, from its catch block, when the fetch throws.
GetPoolInfoFn(fetch) ==
    IF fetch = "ok" THEN Returns(Some("poolInfo")) ELSE Returns(None)

\* No getPoolInfo call is running.
InitPoolIdle ==
    /\ poolRequest = PoolRequest(TRUE, <<>>)
    /\ poolInfoResult = None

PoolIdleVars ==
    <<cfgVars, inputVars, listVars, accVars, posVars, outVars, ghostVars,
      swapVars, discVars, claimVars, paceVars, closeOpVars, menuVars, feeVars, solPrice, i, inflight>>

\* getPoolInfo checks the address and calls retry with the default arguments.
GetPoolInfoBegin ==
    /\ pc = "poolInfoStart"
    /\ IF poolRequest.valid
       THEN /\ retryArgs' = RetryArgs(DefaultRetryAttempts, DefaultRetryDelay)
            /\ pc' = "poolInfo"
            /\ UNCHANGED poolInfoResult
       ELSE /\ poolInfoResult' =
                 Some(Throws("Invalid pool address format", "Error"))
            /\ pc' = "poolInfoDone"
            /\ UNCHANGED retryArgs
    /\ UNCHANGED <<attempt, fnCalls, fnRunning, sleeps, retryOutcome,
                   priceResult, poolRequest>>
    /\ UNCHANGED PoolIdleVars

\* The fetch of the running attempt settles.
PoolFetchSettles ==
    /\ pc = "poolInfo"
    /\ Len(fnCalls) < DefaultRetryAttempts
    /\ RetrySettles(GetPoolInfoFn(poolRequest.plan[Len(fnCalls) + 1]))

\* retry has returned or raised: getPoolInfo returns the pool info, or raises
\* 'Failed to fetch pool info' for a null result and for an error of retry.
GetPoolInfoReturn ==
    /\ pc = "poolInfo"
    /\ retryOutcome # None
    /\ poolInfoResult' =
         Some(IF retryOutcome[1].ok /\ retryOutcome[1].value # None
              THEN Returns(retryOutcome[1].value[1])
              ELSE Throws("Failed to fetch pool info", "Error"))
    /\ pc' = "poolInfoDone"
    /\ UNCHANGED <<retryVars, poolRequest>>
    /\ UNCHANGED PoolIdleVars

\* No claimFees call is running.
InitClaimIdle ==
    /\ claimLog = <<>>
    /\ claimResult = None

\* No loop is followed for its pacing.
InitPaceIdle ==
    /\ pacedLoop = None
    /\ trace = <<>>

\* No close operation is followed.
InitCloseOpIdle ==
    /\ closeCall = None
    /\ closeTxSent = 0
    /\ closeResult = None

InitOtherHelpersIdle ==
    /\ InitCloseOpIdle
    /\ InitSwapIdle
    /\ InitDiscoveryIdle
    /\ InitPoolIdle
    /\ InitClaimIdle
    /\ InitPaceIdle

InitHelpersIdle == InitRetryIdle /\ InitOtherHelpersIdle

(***************************************************************************)
(* Initial states                                                          *)
(***************************************************************************)
InitInputs ==
    /\ flow \in Flows
    /\ swapToSOL \in BOOLEAN
    /\ minFeeThreshold \in MinFeeValues
    /\ maxDeposit \in MaxDepositValues
    /\ flow = "claimAllFees" => maxDeposit = None
    /\ flow \in CloseFlows => minFeeThreshold = 0
    /\ maxFeeRate = None
    /\ ledgerStates = BatchLedgerStates

InitRun ==
    /\ discovered = FALSE
    /\ allPositions = <<>>
    /\ eligiblePositions = <<>>
    /\ i = 1
    /\ totalFeesA = 0
    /\ totalFeesB = 0
    /\ successfulOperations = 0
    /\ lastSignature = None
    /\ positionState = NullPositionState
    /\ hasLiquidity = FALSE
    /\ tokenMints = <<>>
    /\ claimTxSent = 0
    /\ inflight = {}
    /\ result = NoResult
    /\ summary = NoResult
    /\ invoked = {}
    /\ opResult = [k \in Indices |-> "pending"]
    /\ visits = [k \in Indices |-> 0]
    /\ claimed = [k \in Indices |-> FALSE]
    /\ userPositions = <<>>
    /\ pools = <<>>
    /\ menuMaxDeposit = None
    /\ solPrice = None

\* The state after construction and getWalletInfo, a command about to run.
Init ==
    /\ env = DefaultEnv
    /\ ctor = "constructed"
    /\ ctorError = ""
    /\ availableWallets = LoadWallets(DefaultEnv)
    /\ walletInfoFetched = TRUE
    /\ pc = "ready"
    /\ InitInputs
    /\ InitRun
    /\ InitFeeIdle
    /\ InitHelpersIdle

\* The state of a command before it constructs the orchestrator.
InitConfig ==
    /\ env \in EnvValues
    /\ ctor = "new"
    /\ ctorError = ""
    /\ availableWallets = <<>>
    /\ walletInfoFetched = FALSE
    /\ pc = "start"
    /\ InitInputs
    /\ InitRun
    /\ InitFeeIdle
    /\ InitHelpersIdle

(***************************************************************************)
(* Construction                                                            *)
(***************************************************************************)
\* new MeteoraFeeClaimer() in a command's action; a throw is caught by the
\* command, which prints the error and exits.
Constructor ==
    /\ pc = "start"
    /\ IF ~env.rpcUrl
       THEN /\ ctor' = "threw"
            /\ ctorError' = "RPC_URL not found in environment variables"
            /\ availableWallets' = availableWallets
            /\ pc' = "exit"
       ELSE LET wallets == LoadWallets(env) IN
            IF Len(wallets) = 0
            THEN /\ ctor' = "threw"
                 /\ ctorError' = "No valid private keys found in environment variables"
                 /\ availableWallets' = wallets
                 /\ pc' = "exit"
            ELSE /\ ctor' = "constructed"
                 /\ ctorError' = ""
                 /\ availableWallets' = wallets
                 /\ pc' = "walletInfo"
    /\ UNCHANGED <<helperVars, menuVars, feeVars, solPrice>>
    /\ UNCHANGED <<env, walletInfoFetched, inputVars, listVars, accVars, posVars,
                   outVars, ghostVars, i, inflight>>

\* getWalletInfo: one ledger read (getBalance); a failure ends the command.
GetWalletInfo ==
    /\ pc = "walletInfo"
    /\ walletInfoFetched' = TRUE
    /\ \E ok \in BOOLEAN : pc' = IF ok THEN "ready" ELSE "exit"
    /\ UNCHANGED <<helperVars, menuVars, feeVars, solPrice>>
    /\ UNCHANGED <<env, ctor, ctorError, availableWallets, inputVars, listVars,
                   accVars, posVars, outVars, ghostVars, i, inflight>>

(***************************************************************************)
(* Batch flows: discovery and filtering                                    *)
(***************************************************************************)
\* The flow returns before its loop.
ReturnEarly(all, eligible, msg) ==
    /\ discovered' = TRUE
    /\ allPositions' = all
    /\ eligiblePositions' = eligible
    /\ result' = Failure(msg)
    /\ pc' = "done"

\* The flow enters its loop over the eligible positions.
EnterLoop(all, eligible) ==
    /\ discovered' = TRUE
    /\ allPositions' = all
    /\ eligiblePositions' = eligible
    /\ result' = result
    /\ pc' = "loop"

\* claimAllFees up to its loop: discovery (a failed fetch gives the empty
\* list) and the minimum-fee filter.
ClaimAllFeesBegin ==
    /\ pc = "ready"
    /\ flow = "claimAllFees"
    /\ \E ps \in PositionLists :
         LET positionsWithFees ==
               Filter(ps, [k \in 1..Len(ps) |->
                             MeetsMinFee(ps[k], minFeeThreshold)]) IN
         IF Len(ps) = 0
         THEN ReturnEarly(ps, <<>>, "No positions found")
         ELSE IF Len(positionsWithFees) = 0
              THEN ReturnEarly(ps, positionsWithFees, "No positions with claimable fees found")
              ELSE EnterLoop(ps, positionsWithFees)
    /\ UNCHANGED <<helperVars, menuVars, feeVars, solPrice>>
    /\ UNCHANGED <<cfgVars, inputVars, accVars, posVars, summary, ghostVars,
                   i, inflight>>

\* The deposit filter of the close flows, applied when maxDeposit is not null.
DepositFiltered(ps, price) ==
    IF maxDeposit # None
    THEN Filter(ps, [k \in 1..Len(ps) |->
                       WithinDeposit(ps[k], <<maxDeposit[1], price>>)])
    ELSE ps

\* closeAllPositions up to its loop; the price is fetched for the deposit
\* filter only, after the check for an empty list.
CloseAllPositionsBegin ==
    /\ pc = "ready"
    /\ flow = "closeAllPositions"
    /\ \E ps \in PositionLists, price \in SolPriceValues :
         LET eligible == DepositFiltered(ps, price) IN
         /\ solPrice' = IF maxDeposit # None /\ Len(ps) > 0
                         THEN Some(price) ELSE None
         /\ IF Len(ps) = 0
            THEN ReturnEarly(ps, <<>>, "No positions found")
            ELSE IF Len(eligible) = 0
                 THEN ReturnEarly(ps, eligible, "No eligible positions found")
                 ELSE EnterLoop(ps, eligible)
    /\ UNCHANGED <<helperVars, menuVars, feeVars>>
    /\ UNCHANGED <<cfgVars, inputVars, accVars, posVars, summary, ghostVars,
                   i, inflight>>

\* closeAllPositionsOptimized up to its loop.
CloseAllPositionsOptimizedBegin ==
    /\ pc = "ready"
    /\ flow = "closeAllPositionsOptimized"
    /\ \E ps \in PositionLists, price \in SolPriceValues :
         LET eligible == DepositFiltered(ps, price) IN
         /\ solPrice' = IF maxDeposit # None THEN Some(price) ELSE None
         /\ IF Len(eligible) = 0
            THEN ReturnEarly(ps, eligible, "No positions found")
            ELSE EnterLoop(ps, eligible)
    /\ UNCHANGED <<helperVars, menuVars, feeVars>>
    /\ UNCHANGED <<cfgVars, inputVars, accVars, posVars, summary, ghostVars,
                   i, inflight>>

(***************************************************************************)
(* Batch flows: one loop iteration                                         *)
(***************************************************************************)
\* An operation that is started and not awaited: it is still in flight when
\* the flow goes on.
ReturnedNotAwaited(op) == inflight

\* The state of inflight once the awaited operation op has settled.
Returned(op) == inflight \ {op}

\* A loop that stays on the position it has just handled.
NextIndexStays == i

\* The for loop's i++, reached at the end of the body, by continue and after
\* the catch block.
NextIndex == i + 1

\* The iteration ends: the block-scoped values go out of scope and the loop
\* moves on to the next position.
EndIteration(outcome) ==
    /\ opResult' = [opResult EXCEPT ![i] = outcome]
    /\ i' = NextIndex
    /\ pc' = "loop"
    /\ positionState' = NullPositionState
    /\ hasLiquidity' = FALSE
    /\ tokenMints' = <<>>
    /\ claimTxSent' = 0
    /\ invoked' = {}

\* successfulOperations++ (successfulClaims++ in claimAllFees) at the end of
\* the loop body.
CountPosition ==
    /\ successfulOperations' = successfulOperations + 1
    /\ EndIteration("succeeded")

\* totalFeesA += claimableFeesA; totalFeesB += claimableFeesB
AddFees ==
    /\ totalFeesA' = totalFeesA + eligiblePositions[i].feeOwedA
    /\ totalFeesB' = totalFeesB + eligiblePositions[i].feeOwedB

\* meteoraClient.claimFees is called for position i.
InvokeClaim ==
    /\ inflight' = inflight \cup {<<i, "claim">>}
    /\ invoked' = invoked \cup {"claim"}
    /\ claimTxSent' = 0
    /\ pc' = "claimPrimary"

\* A loop body without the NFT check.
SkipsPositionNever(p) == FALSE

\* The NFT check at the head of the loop body: continue when the reference
\* is missing.
SkipsPosition(p) == MissingNft(p)

\* Step 1 of a close iteration is taken: fees are recorded for the position.
ClaimsBeforeClose(p) == HasClaimableFees(p)

\* Head of an iteration of claimAllFees: the NFT check, then the claim
\* (claimFees directly, or through claimFeesAndSwap).
ClaimAllFeesIteration ==
    /\ pc = "loop"
    /\ flow = "claimAllFees"
    /\ i <= Len(eligiblePositions)
    /\ visits' = [visits EXCEPT ![i] = @ + 1]
    /\ IF SkipsPosition(eligiblePositions[i])
       THEN /\ EndIteration("skipped")
            /\ UNCHANGED inflight
       ELSE /\ InvokeClaim
            /\ UNCHANGED <<opResult, i, positionState, hasLiquidity, tokenMints>>
    /\ UNCHANGED <<helperVars, menuVars, feeVars, solPrice>>
    /\ UNCHANGED <<cfgVars, inputVars, listVars, accVars, outVars, claimed>>

\* Head of an iteration of a close flow: the NFT check, the position-state
\* read (null counts as no liquidity), then the claim when fees are recorded.
CloseIteration ==
    /\ pc = "loop"
    /\ flow \in CloseFlows
    /\ i <= Len(eligiblePositions)
    /\ visits' = [visits EXCEPT ![i] = @ + 1]
    /\ IF SkipsPosition(eligiblePositions[i])
       THEN /\ EndIteration("skipped")
            /\ UNCHANGED inflight
       ELSE /\ \E st \in ledgerStates :
                 /\ positionState' = st
                 /\ hasLiquidity' = HasLiquidity(st)
            /\ tokenMints' = <<>>
            /\ IF ClaimsBeforeClose(eligiblePositions[i])
               THEN /\ InvokeClaim
                    /\ UNCHANGED <<opResult, i>>
               ELSE /\ pc' = "close"
                    /\ UNCHANGED <<opResult, i, inflight, invoked, claimTxSent>>
    /\ UNCHANGED <<helperVars, menuVars, feeVars, solPrice>>
    /\ UNCHANGED <<cfgVars, inputVars, listVars, accVars, outVars, claimed>>

(***************************************************************************)
(* MeteoraClient.claimFees                                                 *)
(***************************************************************************)
\* How one claim method ends: its transaction confirmed; an error before
\* sendRawTransaction (state fetch, build, blockhash, preflight); or an error
\* after the transaction was sent (confirmation failed or reported an error).
ClaimOutcomes == {"confirmed", "failedBeforeSend", "failedAfterSend"}

\* One method tried by claimFees and how it ended.
Tried(method, outcome) == [method |-> method, outcome |-> outcome]

\* The message of the error a failed method threw.
ErrorMessage(t) == <<t.method, t.outcome>>

LastErrorOnly(first, second) == Throws(<<ErrorMessage(second)>>, "Error")

\* 'Failed to claim fees with both methods: <first> | <second>'
BothMethodsFailed(first, second) ==
    Throws(<<ErrorMessage(first), ErrorMessage(second)>>, "Error")

Sent(outcome) == IF outcome = "failedBeforeSend" THEN 0 ELSE 1

\* The primary method (claimPositionFee) of claimFees; on any error its catch
\* block goes on to the alternative method.
ClaimPrimary ==
    /\ pc = "claimPrimary"
    /\ \E outcome \in ClaimOutcomes :
         /\ claimTxSent' = claimTxSent + Sent(outcome)
         /\ claimLog' = <<Tried("primary", outcome)>>
         /\ claimResult' = IF outcome = "confirmed"
                           THEN Some(Returns("signature")) ELSE None
         /\ pc' = IF outcome = "confirmed" THEN "claimReturned"
                  ELSE "claimAlternative"
    /\ UNCHANGED <<callVars, menuVars, feeVars, solPrice>>
    /\ UNCHANGED <<cfgVars, inputVars, listVars, accVars, positionState,
                   hasLiquidity,
                   tokenMints, outVars, ghostVars, i, inflight>>

\* The alternative method (claimPositionFee2), run in the catch block of the
\* primary one; when it fails too, claimFees throws one combined error.
ClaimAlternative ==
    /\ pc = "claimAlternative"
    /\ \E outcome \in ClaimOutcomes :
         /\ claimTxSent' = claimTxSent + Sent(outcome)
         /\ claimLog' = Append(claimLog, Tried("alternative", outcome))
         /\ claimResult' =
              Some(IF outcome = "confirmed" THEN Returns("signature2")
                   ELSE BothMethodsFailed(claimLog[1],
                                          Tried("alternative", outcome)))
         /\ pc' = IF outcome = "confirmed" THEN "claimReturned"
                  ELSE "claimThrew"
    /\ UNCHANGED <<callVars, menuVars, feeVars, solPrice>>
    /\ UNCHANGED <<cfgVars, inputVars, listVars, accVars, positionState,
                   hasLiquidity,
                   tokenMints, outVars, ghostVars, i, inflight>>

\* A claim error that leaves the loop: no later position is attempted.
CatchClaimErrorAbortsBatch ==
    /\ opResult' = [opResult EXCEPT ![i] = "failed_claim"]
    /\ i' = Len(eligiblePositions) + 1
    /\ pc' = "loop"
    /\ positionState' = NullPositionState
    /\ hasLiquidity' = FALSE
    /\ tokenMints' = <<>>
    /\ claimTxSent' = 0
    /\ invoked' = {}

\* A claim error that is swallowed: the iteration goes on to its close step.
CatchClaimErrorContinues ==
    /\ pc' = "close"
    /\ claimTxSent' = 0
    /\ UNCHANGED <<opResult, i, positionState, hasLiquidity, tokenMints,
                   invoked>>

\* What the batch flow does with a claim error: it reaches the catch block
\* of the loop body, which logs it.
CatchClaimError == EndIteration("failed_claim")

\* claimFees returned a signature to the batch flow, which goes on.
ClaimReturned ==
    /\ pc = "claimReturned"
    /\ inflight' = Returned(<<i, "claim">>)
    /\ claimed' = [claimed EXCEPT ![i] = TRUE]
    /\ IF flow = "claimAllFees"
       THEN IF swapToSOL
            THEN \* claimFeesAndSwap goes on to its swap part
                 /\ pc' = "claimSwap"
                 /\ claimTxSent' = 0
                 /\ UNCHANGED <<accVars, opResult, i, positionState,
                                hasLiquidity, tokenMints,
                                invoked>>
            ELSE /\ lastSignature' = Some(<<i, "claim">>)
                 /\ AddFees
                 /\ CountPosition
       ELSE /\ lastSignature' = Some(<<i, "claim">>)
            /\ AddFees
            /\ pc' = "close"
            /\ claimTxSent' = 0
            /\ UNCHANGED <<successfulOperations, opResult, i, positionState,
                           hasLiquidity,
                           tokenMints, invoked>>
    /\ claimLog' = <<>>
    /\ claimResult' = None
    /\ UNCHANGED <<callVars, menuVars, feeVars, solPrice>>
    /\ UNCHANGED <<cfgVars, inputVars, listVars, outVars, visits>>

\* claimFees threw.
ClaimThrew ==
    /\ pc = "claimThrew"
    /\ inflight' = Returned(<<i, "claim">>)
    /\ CatchClaimError
    /\ claimLog' = <<>>
    /\ claimResult' = None
    /\ UNCHANGED <<callVars, menuVars, feeVars, solPrice>>
    /\ UNCHANGED <<cfgVars, inputVars, listVars, accVars, outVars, visits,
                   claimed>>

(***************************************************************************)
(* The swap part of claimFeesAndSwap (claimAllFees with swapToSOL)         *)
(***************************************************************************)
\* Per-token results of a swap step: one flag per swap that was executed,
\* TRUE for a successful swap.
SwapResults == UNION { [1..n -> BOOLEAN] : n \in 0..2 }

\* After the claim: the pool state is fetched again (a missing state throws
\* out of claimFeesAndSwap), then the swaps start.
ClaimSwapInvoke ==
    /\ pc = "claimSwap"
    /\ \E poolStateFetched \in BOOLEAN :
         IF poolStateFetched
         THEN /\ inflight' = inflight \cup {<<i, "swap">>}
              /\ invoked' = invoked \cup {"swap"}
              /\ pc' = "claimSwapping"
              /\ UNCHANGED <<opResult, i, posVars>>
         ELSE /\ EndIteration("failed_swap")
              /\ UNCHANGED inflight
    /\ UNCHANGED <<helperVars, menuVars, feeVars, solPrice>>
    /\ UNCHANGED <<cfgVars, inputVars, listVars, accVars, outVars, visits,
                   claimed>>

\* The swaps settled (each token in its own try/catch): claimFeesAndSwap
\* returns and the position is counted.
ClaimSwapReturn ==
    /\ pc = "claimSwapping"
    /\ \E executed \in SwapResults :
         /\ inflight' = Returned(<<i, "swap">>)
         /\ lastSignature' = Some(<<i, "claim">>)
         /\ AddFees
         /\ CountPosition
    /\ UNCHANGED <<helperVars, menuVars, feeVars, solPrice>>
    /\ UNCHANGED <<cfgVars, inputVars, listVars, outVars, visits, claimed>>

(***************************************************************************)
(* Steps 2 and 3 of a close iteration                                      *)
(***************************************************************************)
\* The operation step 2 invokes.
CloseKind == IF hasLiquidity THEN "withdrawClose" ELSE "close"

\* Step 2: removeAllLiquidityAndClosePosition (after getPoolInfo, which may
\* return null) when the position has liquidity, closePosition otherwise.
CloseInvoke ==
    /\ pc = "close"
    /\ IF hasLiquidity
       THEN \E poolInfo \in BOOLEAN :
                tokenMints' = IF poolInfo THEN <<"tokenA", "tokenB">> ELSE <<>>
       ELSE tokenMints' = <<>>
    /\ inflight' = inflight \cup {<<i, CloseKind>>}
    /\ invoked' = invoked \cup {CloseKind}
    /\ pc' = "closing"
    /\ UNCHANGED <<helperVars, menuVars, feeVars, solPrice>>
    /\ UNCHANGED <<cfgVars, inputVars, listVars, accVars, positionState,
                   hasLiquidity,
                   claimTxSent, outVars, opResult, visits, claimed, i>>

\* The close operation settled: on success step 3 follows when a swap was
\* requested and token mints are known; on failure the catch block runs.
CloseReturn ==
    /\ pc = "closing"
    /\ inflight' = Returned(<<i, CloseKind>>)
    /\ \E confirmed \in BOOLEAN :
         IF confirmed
         THEN /\ lastSignature' = Some(<<i, "close">>)
              /\ UNCHANGED <<totalFeesA, totalFeesB>>
              /\ IF swapToSOL /\ Len(tokenMints) > 0
                 THEN /\ pc' = "swap"
                      /\ UNCHANGED <<successfulOperations, opResult, i, posVars,
                                     invoked>>
                 ELSE CountPosition
         ELSE /\ EndIteration("failed_close")
              /\ UNCHANGED accVars
    /\ UNCHANGED <<helperVars, menuVars, feeVars, solPrice>>
    /\ UNCHANGED <<cfgVars, inputVars, listVars, outVars, visits, claimed>>

\* Step 3: swapTokensToSOL is called.
SwapInvoke ==
    /\ pc = "swap"
    /\ inflight' = inflight \cup {<<i, "swap">>}
    /\ invoked' = invoked \cup {"swap"}
    /\ pc' = "swapping"
    /\ UNCHANGED <<helperVars, menuVars, feeVars, solPrice>>
    /\ UNCHANGED <<cfgVars, inputVars, listVars, accVars, posVars, outVars,
                   opResult, visits, claimed, i>>

\* swapTokensToSOL returned its results (it catches every token's error);
\* the signatures of the successful swaps are recorded.
SwapReturn ==
    /\ pc = "swapping"
    /\ inflight' = Returned(<<i, "swap">>)
    /\ \E executed \in SwapResults :
         lastSignature' = IF \E t \in DOMAIN executed : executed[t]
                          THEN Some(<<i, "swap">>)
                          ELSE lastSignature
    /\ UNCHANGED <<totalFeesA, totalFeesB>>
    /\ CountPosition
    /\ UNCHANGED <<helperVars, menuVars, feeVars, solPrice>>
    /\ UNCHANGED <<cfgVars, inputVars, listVars, outVars, visits, claimed>>

(***************************************************************************)
(* Batch flows: summary and return                                         *)
(***************************************************************************)
\* The count the summary prints as "Positions processed".
ProcessedCount ==
    IF flow = "closeAllPositions" THEN Len(allPositions)
    ELSE Len(eligiblePositions)

\* The ClaimResult returned after the loop.
LoopResult ==
    IF successfulOperations > 0
    THEN Success(lastSignature, totalFeesA, totalFeesB)
    ELSE Failure("No positions were successfully processed")

\* After the loop: the summary is printed and the result returned.
Finish ==
    /\ pc = "loop"
    /\ i > Len(eligiblePositions)
    /\ summary' = [processed |-> ProcessedCount,
                   successful |-> successfulOperations,
                   failed |-> ProcessedCount - successfulOperations]
    /\ result' = LoopResult
    /\ pc' = "done"
    /\ UNCHANGED <<helperVars, menuVars, feeVars, solPrice>>
    /\ UNCHANGED <<cfgVars, inputVars, listVars, accVars, posVars, ghostVars,
                   i, inflight>>

(***************************************************************************)
(* Interactive close-all: handleCloseAll                                   *)
(***************************************************************************)
\* What the fetch of a position's pool gives: fetchPoolState throws, or it
\* returns a pool state; slotOk is the outcome of the slot fetch the rate
\* computation makes for a slot-based schedule.
PoolFetch(fetched, state, slotOk) ==
    [fetched |-> fetched, state |-> state, slotOk |-> slotOk]

FetchThrows == PoolFetch(FALSE, NullPoolState, TRUE)

\* The pools of the interactive close, read one period after activation: a
\* linear schedule then at 45 percent, and a pool state without a base fee
\* (the 25 percent fallback).
MenuPoolValues ==
    { FetchThrows,
      PoolFetch(TRUE, PoolState("scheduled",
                                BaseFee(500000000, 10, 50000000, Some(3600), 0),
                                1700000000), TRUE),
      PoolFetch(TRUE, PoolState("noBaseFee", NoBaseFee, 0), TRUE) }

\* Fee-rate ceilings (percent) and deposit ceilings (SOL) the menu passes.
MaxFeeRateValues == {None, Some(25), Some(45)}
MenuMaxDepositValues == {None, Some(2)}

MenuPositionValues ==
    { Position(0, 0, 1, 1, TRUE),
      Position(1, 2, 1, 2, TRUE) }

MenuPositionLists ==
    UNION { [1..n -> MenuPositionValues] : n \in 0..MaxPositions }

\* An eligibility check that drops a rate equal to the ceiling.
IsPoolEligibleForClosingExclusive(pool, ceiling, clk) ==
    /\ pool.fetched
    /\ GetCurrentFeeRate(pool.state, clk, pool.slotOk) < ceiling * PercentUnit

\* isPoolEligibleForClosing: currentFeeRate <= maxFeeRate, false when the
\* pool state fetch throws.
IsPoolEligibleForClosing(pool, ceiling, clk) ==
    /\ pool.fetched
    /\ GetCurrentFeeRate(pool.state, clk, pool.slotOk) <= ceiling * PercentUnit

\* The fee-rate loop of handleCloseAll: eligible positions are pushed in the
\* order of the discovered list.
FeeRateFiltered(ps, pl) ==
    IF maxFeeRate # None
    THEN Filter(ps, [k \in 1..Len(ps) |->
                       IsPoolEligibleForClosing(pl[k], maxFeeRate[1], clock)])
    ELSE ps

\* totalDeposit <= maxDeposit, the ceiling already in SOL.
WithinDepositSOL(p, ceiling) == p.depositA + p.depositB <= ceiling

\* A deposit filter that starts again from the discovered list.
MenuDepositFilteredFromAll(survivors, all) ==
    IF menuMaxDeposit # None
    THEN Filter(all, [k \in 1..Len(all) |->
                        WithinDepositSOL(all[k], menuMaxDeposit[1])])
    ELSE survivors

\* The deposit filter of handleCloseAll, applied to the survivors of the
\* fee-rate loop; all is the discovered list.
MenuDepositFiltered(survivors, all) ==
    IF menuMaxDeposit # None
    THEN Filter(survivors, [k \in 1..Len(survivors) |->
                              WithinDepositSOL(survivors[k], menuMaxDeposit[1])])
    ELSE survivors

\* handleCloseAll up to its confirmation prompt: discovery, the fee-rate
\* loop, the deposit filter; it returns when no position is left.
HandleCloseAllBegin ==
    /\ pc = "menu"
    /\ \E ps \in MenuPositionLists :
         \E pl \in [1..Len(ps) -> MenuPoolValues] :
           LET eligible == MenuDepositFiltered(FeeRateFiltered(ps, pl), ps) IN
           /\ userPositions' = ps
           /\ pools' = pl
           /\ discovered' = TRUE
           /\ allPositions' = ps
           /\ eligiblePositions' = IF Len(ps) = 0 THEN ps ELSE eligible
           /\ pc' = IF Len(ps) = 0 \/ Len(eligible) = 0
                    THEN "done" ELSE "confirm"
    /\ UNCHANGED <<cfgVars, inputVars, accVars, posVars, outVars, ghostVars,
                   helperVars, menuMaxDeposit, feeVars, solPrice, i, inflight>>

\* The confirmation prompt: a refusal returns, a confirmation calls
\* closeAllPositions with a null deposit ceiling and the filtered list, which
\* that flow takes for its discovered and its eligible list.
ConfirmPrompt ==
    /\ pc = "confirm"
    /\ \E confirm \in BOOLEAN :
         IF confirm
         THEN EnterLoop(eligiblePositions, eligiblePositions)
         ELSE /\ pc' = "done"
              /\ UNCHANGED <<listVars, result>>
    /\ UNCHANGED <<cfgVars, inputVars, accVars, posVars, summary, ghostVars,
                   helperVars, menuVars, feeVars, solPrice, i, inflight>>

(***************************************************************************)
(* Specifications                                                          *)
(***************************************************************************)
Next ==
    \/ ClaimAllFeesBegin
    \/ CloseAllPositionsBegin
    \/ CloseAllPositionsOptimizedBegin
    \/ ClaimAllFeesIteration
    \/ CloseIteration
    \/ ClaimPrimary
    \/ ClaimAlternative
    \/ ClaimReturned
    \/ ClaimThrew
    \/ ClaimSwapInvoke
    \/ ClaimSwapReturn
    \/ CloseInvoke
    \/ CloseReturn
    \/ SwapInvoke
    \/ SwapReturn
    \/ Finish

\* A batch run of a constructed orchestrator.
Spec == Init /\ [][Next]_vars

\* The same, every remote call eventually returning or failing.
FairSpec == Spec /\ WF_vars(Next)

\* A command from its start: construction, wallet info, then discovery.
NextConfig ==
    \/ Constructor
    \/ GetWalletInfo
    \/ ClaimAllFeesBegin
    \/ CloseAllPositionsBegin
    \/ CloseAllPositionsOptimizedBegin

ConfigSpec == InitConfig /\ [][NextConfig]_vars

(***************************************************************************)
(* getCurrentFeeRate called over time on one pool                          *)
(***************************************************************************)
\* A pool state and a clock; exponential schedules, and schedules without a
\* period frequency, are observed from their activation point on.
InitFee ==
    /\ env = DefaultEnv
    /\ ctor = "constructed"
    /\ ctorError = ""
    /\ availableWallets = LoadWallets(DefaultEnv)
    /\ walletInfoFetched = TRUE
    /\ pc = "feeRate"
    /\ flow = "closeAllPositions"
    /\ swapToSOL = FALSE
    /\ minFeeThreshold = 0
    /\ maxDeposit = None
    /\ maxFeeRate = None
    /\ ledgerStates = BatchLedgerStates
    /\ InitRun
    /\ poolState \in PoolStateValues
    /\ clock \in ClockValues
    /\ (\/ poolState.baseFee.feeSchedulerMode = 1
        \/ poolState.baseFee.periodFrequency = None)
         => Elapsed(poolState, clock) >= 0
    /\ feeRate = None
    /\ prevFeeRate = None
    /\ InitHelpersIdle

\* A call of getCurrentFeeRate on the pool state, at the current clock.
GetCurrentFeeRateCall ==
    /\ pc = "feeRate"
    /\ \E slotOk \in BOOLEAN :
         feeRate' = Some(RateResult(GetCurrentFeeRate(poolState, clock, slotOk),
                                    clock, slotOk))
    /\ prevFeeRate' = feeRate
    /\ UNCHANGED <<cfgVars, inputVars, listVars, accVars, posVars, outVars,
                   ghostVars, helperVars, menuVars, solPrice, poolState, clock, pc, i,
                   inflight>>

\* Time passes: the timestamp and the slot advance.
Tick ==
    /\ pc = "feeRate"
    /\ \E e \in ElapsedValues :
         /\ ClockAt(e).timestamp > clock.timestamp
         /\ clock' = ClockAt(e)
    /\ UNCHANGED <<cfgVars, inputVars, listVars, accVars, posVars, outVars,
                   ghostVars, helperVars, menuVars, solPrice, poolState, feeRate,
                   prevFeeRate, pc, i, inflight>>

NextFee == GetCurrentFeeRateCall \/ Tick

FeeSpec == InitFee /\ [][NextFee]_vars

(***************************************************************************)
(* The interactive close-all                                               *)
(***************************************************************************)
\* The menu has read its ceilings and is about to call handleCloseAll, the
\* swap to SOL declined; the pools are read one period after their
\* activation.
InitMenu ==
    /\ env = DefaultEnv
    /\ ctor = "constructed"
    /\ ctorError = ""
    /\ availableWallets = LoadWallets(DefaultEnv)
    /\ walletInfoFetched = TRUE
    /\ pc = "menu"
    /\ flow = "closeAllPositions"
    /\ swapToSOL = FALSE
    /\ minFeeThreshold = 0
    /\ maxDeposit = None
    /\ maxFeeRate \in MaxFeeRateValues
    /\ ledgerStates = BatchLedgerStates
    /\ discovered = FALSE
    /\ allPositions = <<>>
    /\ eligiblePositions = <<>>
    /\ i = 1
    /\ totalFeesA = 0
    /\ totalFeesB = 0
    /\ successfulOperations = 0
    /\ lastSignature = None
    /\ positionState = NullPositionState
    /\ hasLiquidity = FALSE
    /\ tokenMints = <<>>
    /\ claimTxSent = 0
    /\ inflight = {}
    /\ result = NoResult
    /\ summary = NoResult
    /\ invoked = {}
    /\ opResult = [k \in Indices |-> "pending"]
    /\ visits = [k \in Indices |-> 0]
    /\ claimed = [k \in Indices |-> FALSE]
    /\ userPositions = <<>>
    /\ pools = <<>>
    /\ menuMaxDeposit \in MenuMaxDepositValues
    /\ solPrice = None
    /\ poolState = NullPoolState
    /\ clock = ClockAt(3600)
    /\ feeRate = None
    /\ prevFeeRate = None
    /\ InitHelpersIdle

NextMenu ==
    \/ HandleCloseAllBegin
    \/ ConfirmPrompt
    \/ CloseIteration
    \/ ClaimPrimary
    \/ ClaimAlternative
    \/ ClaimReturned
    \/ ClaimThrew
    \/ CloseInvoke
    \/ CloseReturn
    \/ Finish

\* The interactive close-all without the swap to SOL.
MenuSpec == InitMenu /\ [][NextMenu]_vars

(***************************************************************************)
(* closeAllPositions over every position state                             *)
(***************************************************************************)
\* closeAllPositions without ceilings and without the swap to SOL; the fetch
\* of a position's state may fail or give any of the position states.
InitClose ==
    /\ env = DefaultEnv
    /\ ctor = "constructed"
    /\ ctorError = ""
    /\ availableWallets = LoadWallets(DefaultEnv)
    /\ walletInfoFetched = TRUE
    /\ pc = "ready"
    /\ flow = "closeAllPositions"
    /\ swapToSOL = FALSE
    /\ minFeeThreshold = 0
    /\ maxDeposit = None
    /\ maxFeeRate = None
    /\ ledgerStates = PositionStateValues
    /\ InitRun
    /\ InitFeeIdle
    /\ InitHelpersIdle

NextClose ==
    \/ CloseAllPositionsBegin
    \/ CloseIteration
    \/ ClaimPrimary
    \/ ClaimAlternative
    \/ ClaimReturned
    \/ ClaimThrew
    \/ CloseInvoke
    \/ CloseReturn
    \/ Finish

CloseSpec == InitClose /\ [][NextClose]_vars

(***************************************************************************)
(* retry and fetchSOLPrice on their own                                    *)
(***************************************************************************)
\* A constructed orchestrator with no batch running.
InitNoBatch ==
    /\ env = DefaultEnv
    /\ ctor = "constructed"
    /\ ctorError = ""
    /\ availableWallets = LoadWallets(DefaultEnv)
    /\ walletInfoFetched = TRUE
    /\ flow = "closeAllPositions"
    /\ swapToSOL = FALSE
    /\ minFeeThreshold = 0
    /\ maxDeposit = None
    /\ maxFeeRate = None
    /\ ledgerStates = BatchLedgerStates
    /\ InitRun
    /\ InitFeeIdle

\* A caller has just called retry(fn, maxAttempts, delay).
InitRetry ==
    /\ InitNoBatch
    /\ InitOtherHelpersIdle
    /\ pc = "retry"
    /\ retryArgs \in { RetryArgs(m, d) : m \in MaxAttemptsValues, d \in DelayValues }
    /\ attempt = 1
    /\ fnCalls = <<>>
    /\ fnRunning = FALSE
    /\ sleeps = <<>>
    /\ retryOutcome = None
    /\ priceResult = None

NextRetry ==
    \/ RetryInvokeFn
    \/ FnSettles
    \/ SleepEnds
    \/ RetryFallsThrough

RetrySpec == InitRetry /\ [][NextRetry]_vars

\* A caller is about to call fetchSOLPrice.
InitPrice ==
    /\ InitNoBatch
    /\ InitOtherHelpersIdle
    /\ pc = "priceStart"
    /\ InitRetryIdle

NextPrice ==
    \/ FetchSOLPriceBegin
    \/ RetryInvokeFn
    \/ PriceRequestSettles
    \/ SleepEnds
    \/ FetchSOLPriceReturn

PriceSpec == InitPrice /\ [][NextPrice]_vars

(***************************************************************************)
(* The swap step on its own                                                *)
(***************************************************************************)
\* A swap step is about to start: step 3 of closeAllPositionsOptimized, run
\* by close-all-fast --swap --min-value V, or the swaps of claimFeesAndSwap.
InitSwap ==
    /\ env = DefaultEnv
    /\ ctor = "constructed"
    /\ ctorError = ""
    /\ availableWallets = LoadWallets(DefaultEnv)
    /\ walletInfoFetched = TRUE
    /\ swapCaller \in SwapCallers
    /\ flow = IF swapCaller = "swapTokensToSOL"
              THEN "closeAllPositionsOptimized" ELSE "claimAllFees"
    /\ swapToSOL = TRUE
    /\ minFeeThreshold = 0
    /\ maxDeposit = None
    /\ maxFeeRate = None
    /\ ledgerStates = BatchLedgerStates
    /\ InitRun
    /\ InitFeeIdle
    /\ InitRetryIdle
    /\ InitDiscoveryIdle
    /\ InitPoolIdle
    /\ InitClaimIdle
    /\ InitPaceIdle
    /\ InitCloseOpIdle
    /\ pc = "swapStart"
    /\ minValueLamports \in MinValueValues
    /\ swapCaller = "claimFeesAndSwap"
         => minValueLamports = DefaultMinValueLamports
    /\ swapThreshold = DefaultMinValueLamports
    /\ swapTokenMints \in TokenMintLists
    /\ holdings \in [1..2 -> HoldingValues]
    /\ \A t \in 1..2 :
         ~IsSwappableToken(swapTokenMints[t]) => holdings[t] = NoHolding
    /\ tokenIdx = 1
    /\ quote = None
    /\ swapResults = <<>>
    /\ swapInvoked = {}

NextSwap ==
    \/ SwapStepBegin
    \/ SkipReferenceToken
    \/ GetTokenAccount
    \/ WorthChecked
    \/ QuoteFetched
    \/ SwapExecute
    \/ SwapStepReturn

SwapSpec == InitSwap /\ [][NextSwap]_vars

(***************************************************************************)
(* Discovery on its own                                                    *)
(***************************************************************************)
\* getUserPositions is about to be called.
InitDiscovery ==
    /\ InitNoBatch
    /\ InitRetryIdle
    /\ InitSwapIdle
    /\ InitPoolIdle
    /\ InitClaimIdle
    /\ InitPaceIdle
    /\ InitCloseOpIdle
    /\ pc = "discStart"
    /\ enumeration \in EnumerationValues
    /\ discIdx = 1
    /\ positions = <<>>
    /\ discReturned = None
    /\ quoteCalls = <<>>

NextDiscovery ==
    \/ GetUserPositionsBegin
    \/ ProcessPosition
    \/ DepositQuoteSettles
    \/ GetUserPositionsReturn

DiscoverySpec == InitDiscovery /\ [][NextDiscovery]_vars

(***************************************************************************)
(* closeAllPositions on the list getUserPositions returns                  *)
(***************************************************************************)
\* The position the batch sees for a record of discovery (the records of the
\* model carry their NFT account).
AsPosition(p) ==
    Position(p.feeOwedA, p.feeOwedB, p.depositA, p.depositB, TRUE)

\* closeAllPositions up to its loop, without a deposit ceiling: the list is
\* the one getUserPositions has just returned.
CloseAllPositionsOnDiscovered ==
    /\ pc = "discDone"
    /\ flow = "closeAllPositions"
    /\ maxDeposit = None
    /\ LET ps == [k \in 1..Len(discReturned[1]) |->
                   AsPosition(discReturned[1][k])] IN
         IF Len(ps) = 0
         THEN ReturnEarly(ps, <<>>, "No positions found")
         ELSE EnterLoop(ps, ps)
    /\ UNCHANGED <<helperVars, menuVars, feeVars, solPrice>>
    /\ UNCHANGED <<cfgVars, inputVars, accVars, posVars, summary, ghostVars,
                   i, inflight>>

\* closeAllPositions is called and calls getUserPositions.
InitCloseDiscovered ==
    /\ InitNoBatch
    /\ InitRetryIdle
    /\ InitSwapIdle
    /\ InitPoolIdle
    /\ InitClaimIdle
    /\ InitPaceIdle
    /\ InitCloseOpIdle
    /\ pc = "discStart"
    /\ enumeration \in EnumerationValues
    /\ discIdx = 1
    /\ positions = <<>>
    /\ discReturned = None
    /\ quoteCalls = <<>>

NextCloseDiscovered ==
    \/ GetUserPositionsBegin
    \/ ProcessPosition
    \/ DepositQuoteSettles
    \/ GetUserPositionsReturn
    \/ CloseAllPositionsOnDiscovered
    \/ CloseIteration
    \/ ClaimPrimary
    \/ ClaimAlternative
    \/ ClaimReturned
    \/ ClaimThrew
    \/ CloseInvoke
    \/ CloseReturn
    \/ Finish

CloseDiscoveredSpec == InitCloseDiscovered /\ [][NextCloseDiscovered]_vars

(***************************************************************************)
(* getPoolInfo on its own                                                  *)
(***************************************************************************)
\* A command is about to call MeteoraFeeClaimer.getPoolInfo.
InitPoolInfo ==
    /\ InitNoBatch
    /\ InitRetryIdle
    /\ InitSwapIdle
    /\ InitDiscoveryIdle
    /\ InitClaimIdle
    /\ InitPaceIdle
    /\ InitCloseOpIdle
    /\ pc = "poolInfoStart"
    /\ poolRequest \in PoolRequestValues
    /\ poolInfoResult = None

\* The fn of this caller never throws, so that retry never sleeps here.
NextPoolInfo ==
    \/ GetPoolInfoBegin
    \/ RetryInvokeFn
    \/ PoolFetchSettles
    \/ GetPoolInfoReturn

PoolInfoSpec == InitPoolInfo /\ [][NextPoolInfo]_vars

(***************************************************************************)
(* Pacing of the batch loops: the remote calls and the delays of the claim *)
(* batch, of the close batch and of the fee-rate pre-filter, in order      *)
(***************************************************************************)
MediumDelay == 500
StateCheckDelay == 300
StepDelay == 500

Delay(ms) == [kind |-> "delay", pos |-> 0, what |-> ms]
Call(k, op) == [kind |-> "call", pos |-> k, what |-> op]

\* rateLimitDelay() with its default operation type.
RateLimitDelay == <<Delay(MediumDelay)>>

\* What happens to one position of a loop: it has an NFT account, fees are
\* owed to it, the ledger holds liquidity for it, and the call that throws.
Plan(nft, fees, liquidity, failAt) ==
    [nft |-> nft, fees |-> fees, liquidity |-> liquidity, failAt |-> failAt]

PlanValues ==
    { Plan(FALSE, TRUE, TRUE, "none"),
      Plan(TRUE, TRUE, TRUE, "none"),
      Plan(TRUE, FALSE, FALSE, "none"),
      Plan(TRUE, TRUE, TRUE, "claim"),
      Plan(TRUE, FALSE, TRUE, "close"),
      Plan(TRUE, TRUE, FALSE, "feeRate") }

PacedLoops == {"claimAllFees", "closeAllPositions", "handleCloseAll"}

PacedLoop(loop, swap, plans) == [loop |-> loop, swap |-> swap, plans |-> plans]

PlanLists == UNION { [1..n -> PlanValues] : n \in 0..MaxPositions }

\* One iteration of the claim loop: the delay of every iteration but the
\* first, the NFT check, the claim, and the delay after a successful claim
\* of every position but the last.
ClaimLoopEvents(k, n, p, swap) ==
    (IF k > 1 THEN RateLimitDelay ELSE <<>>)
    \o (IF ~p.nft THEN <<>>
        ELSE <<Call(k, IF swap THEN "claimFeesAndSwap" ELSE "claimFees")>>
             \o (IF p.failAt = "claim" THEN <<>>
                 ELSE IF k < n THEN RateLimitDelay ELSE <<>>))

NoDelayBeforeStateCheck == <<>>

\* await new Promise(resolve => setTimeout(resolve, 300))
BeforeStateCheck == <<Delay(StateCheckDelay)>>

\* Step 3 of the close loop and the end of a successful iteration.
CloseLoopSwapEvents(k, n, p, swap) ==
    (IF swap /\ p.liquidity
     THEN <<Delay(StepDelay), Call(k, "swapTokensToSOL")>> ELSE <<>>)
    \o (IF k < n THEN <<Delay(StepDelay)>> ELSE <<>>)

\* Step 2 of the close loop and what follows it.
CloseLoopCloseEvents(k, n, p, swap) ==
    (IF p.liquidity
     THEN <<Call(k, "getPoolInfo"),
            Call(k, "removeAllLiquidityAndClosePosition")>>
     ELSE <<Call(k, "closePosition")>>)
    \o (IF p.failAt = "close" THEN <<>>
        ELSE <<Delay(StepDelay)>> \o CloseLoopSwapEvents(k, n, p, swap))

\* One iteration of the close loop: the NFT check, the delay before the
\* position state is read, and the steps up to the first call that throws.
CloseLoopEvents(k, n, p, swap) ==
    IF ~p.nft THEN <<>>
    ELSE BeforeStateCheck \o <<Call(k, "getPositionState")>>
         \o (IF p.fees
             THEN <<Call(k, "claimFees")>>
                  \o (IF p.failAt = "claim" THEN <<>>
                      ELSE <<Delay(StepDelay)>>
                           \o CloseLoopCloseEvents(k, n, p, swap))
             ELSE CloseLoopCloseEvents(k, n, p, swap))

\* One iteration of the fee-rate pre-filter: the eligibility check, and
\* after its try block the delay of every position but the last.
PreFilterEvents(k, n, p) ==
    <<Call(k, "isPoolEligibleForClosing")>>
    \o (IF k < n THEN RateLimitDelay ELSE <<>>)

PaceIdleVars ==
    <<cfgVars, inputVars, listVars, accVars, posVars, outVars, ghostVars,
      retryVars, swapVars, discVars, poolVars, claimVars, closeOpVars, menuVars,
      feeVars, solPrice, inflight>>

\* The loop of pacedLoop is at position i of its list.
InPacedLoop(loop) ==
    /\ pc = "pacedLoop"
    /\ pacedLoop # None
    /\ pacedLoop[1].loop = loop
    /\ i <= Len(pacedLoop[1].plans)

PacedIteration(events) ==
    /\ trace' = trace \o events
    /\ i' = i + 1
    /\ UNCHANGED <<pc, pacedLoop>>
    /\ UNCHANGED PaceIdleVars

ClaimLoopIteration ==
    /\ InPacedLoop("claimAllFees")
    /\ LET l == pacedLoop[1]
       IN PacedIteration(ClaimLoopEvents(i, Len(l.plans), l.plans[i], l.swap))

CloseLoopIteration ==
    /\ InPacedLoop("closeAllPositions")
    /\ LET l == pacedLoop[1]
       IN PacedIteration(CloseLoopEvents(i, Len(l.plans), l.plans[i], l.swap))

PreFilterIteration ==
    /\ InPacedLoop("handleCloseAll")
    /\ LET l == pacedLoop[1]
       IN PacedIteration(PreFilterEvents(i, Len(l.plans), l.plans[i]))

\* The loop has gone through its list.
PacedLoopEnds ==
    /\ pc = "pacedLoop"
    /\ pacedLoop # None
    /\ i > Len(pacedLoop[1].plans)
    /\ pc' = "pacedLoopDone"
    /\ UNCHANGED <<i, paceVars>>
    /\ UNCHANGED PaceIdleVars

InitPacing ==
    /\ InitNoBatch
    /\ InitRetryIdle
    /\ InitSwapIdle
    /\ InitDiscoveryIdle
    /\ InitPoolIdle
    /\ InitClaimIdle
    /\ InitCloseOpIdle
    /\ pc = "pacedLoop"
    /\ pacedLoop \in { Some(PacedLoop(l, s, ps)) :
                         l \in PacedLoops, s \in BOOLEAN, ps \in PlanLists }
    /\ trace = <<>>

NextPacing ==
    \/ ClaimLoopIteration
    \/ CloseLoopIteration
    \/ PreFilterIteration
    \/ PacedLoopEnds

PacingSpec == InitPacing /\ [][NextPacing]_vars

(***************************************************************************)
(* The close operations: closePosition and                                 *)
(* removeAllLiquidityAndClosePosition, from their fetches to their return  *)
(***************************************************************************)
\* A call of a close operation: which one, the position state and whether a
\* pool state the ledger gives, and the answer of cpAmm.isLockedPosition.
CloseCall(op, position, pool, locked) ==
    [op |-> op, position |-> position, pool |-> pool, locked |-> locked]

CloseCallValues ==
    { CloseCall(op, st, pool, locked) :
        op \in {"close", "withdrawClose"}, st \in PositionStateValues,
        pool \in BOOLEAN, locked \in BOOLEAN }

\* The amount of a liquidity of which only being non-zero is known.
Amount(nonZero) == IF nonZero THEN 1 ELSE 0

TotalLiquidityUnlockedAndVested(st) == Amount(st.unlocked) + Amount(st.vested)

\* unlockedLiquidity.add(vestedLiquidity).add(permanentLockedLiquidity)
TotalLiquidity(st) ==
    Amount(st.unlocked) + Amount(st.vested) + Amount(st.permanentLocked)

\* The error closePosition throws before it builds its transaction, None
\* when it goes on.
ClosePositionGuard(c) ==
    IF ~c.position.fetched
    THEN Some(Throws("Could not fetch position state", "Error"))
    ELSE IF TotalLiquidity(c.position) # 0
    THEN Some(Throws("Position still has liquidity. Remove all liquidity first.",
                     "Error"))
    ELSE None

\* The error removeAllLiquidityAndClosePosition throws before it builds its
\* transaction, None when it goes on.
WithdrawCloseGuard(c) ==
    IF ~c.position.fetched \/ ~c.pool
    THEN Some(Throws("Could not fetch pool or position state", "Error"))
    ELSE IF c.locked
    THEN Some(Throws("Cannot close a locked position", "Error"))
    ELSE None

CloseOpIdleVars ==
    <<cfgVars, inputVars, listVars, accVars, posVars, outVars, ghostVars,
      retryVars, swapVars, discVars, poolVars, claimVars, paceVars, menuVars,
      feeVars, solPrice, i, inflight>>

\* The operation has fetched the states it reads.
CloseOpFetch ==
    /\ pc = "closeOpStart"
    /\ pc' = "closeOpGuard"
    /\ UNCHANGED closeOpVars
    /\ UNCHANGED CloseOpIdleVars

\* The checks made before the transaction is built: the error is logged and
\* thrown again by the catch block, or the operation goes on.
CloseOpGuard ==
    /\ pc = "closeOpGuard"
    /\ LET guard == IF closeCall[1].op = "close"
                    THEN ClosePositionGuard(closeCall[1])
                    ELSE WithdrawCloseGuard(closeCall[1])
       IN /\ closeResult' = guard
          /\ pc' = IF guard = None THEN "closeOpSend" ELSE "closeOpDone"
    /\ UNCHANGED <<closeCall, closeTxSent>>
    /\ UNCHANGED CloseOpIdleVars

\* The transaction is built, signed and sent; any of these may throw.
CloseOpSend ==
    /\ pc = "closeOpSend"
    /\ \E sent \in BOOLEAN :
         IF sent
         THEN /\ closeTxSent' = closeTxSent + 1
              /\ pc' = "closeOpConfirm"
              /\ UNCHANGED closeResult
         ELSE /\ closeResult' = Some(Throws("send", "Error"))
              /\ pc' = "closeOpDone"
              /\ UNCHANGED closeTxSent
    /\ UNCHANGED closeCall
    /\ UNCHANGED CloseOpIdleVars

\* confirmTransaction returns, and the signature is returned, or throws.
CloseOpConfirm ==
    /\ pc = "closeOpConfirm"
    /\ \E returned \in BOOLEAN :
         closeResult' = Some(IF returned THEN Returns("signature")
                             ELSE Throws("confirm", "Error"))
    /\ pc' = "closeOpDone"
    /\ UNCHANGED <<closeCall, closeTxSent>>
    /\ UNCHANGED CloseOpIdleVars

InitCloseOp ==
    /\ InitNoBatch
    /\ InitRetryIdle
    /\ InitSwapIdle
    /\ InitDiscoveryIdle
    /\ InitPoolIdle
    /\ InitClaimIdle
    /\ InitPaceIdle
    /\ pc = "closeOpStart"
    /\ closeCall \in { Some(c) : c \in CloseCallValues }
    /\ closeTxSent = 0
    /\ closeResult = None

NextCloseOp ==
    \/ CloseOpFetch
    \/ CloseOpGuard
    \/ CloseOpSend
    \/ CloseOpConfirm

CloseOpSpec == InitCloseOp /\ [][NextCloseOp]_vars

(***************************************************************************)
(* Properties                                                              *)
(***************************************************************************)
EligibleIdx == 1..Len(eligiblePositions)

CloseKinds == {"close", "withdrawClose"}

FailedOutcomes == {"failed_claim", "failed_close", "failed_swap"}

EndedOutcomes == {"succeeded", "skipped"} \cup FailedOutcomes

\* The positions of the batch whose iteration ended with one of outcomes.
Ended(outcomes) == {k \in EligibleIdx : opResult[k] \in outcomes}

RECURSIVE SumOver(_, _)
\* Sum of f[k] over the finite set of indices ks.
SumOver(f, ks) ==
    IF ks = {} THEN 0
    ELSE LET k == CHOOSE x \in ks : TRUE IN f[k] + SumOver(f, ks \ {k})

\* The fees of the positions whose claim returned a signature in this run.
ClaimedFeesA ==
    SumOver([k \in EligibleIdx |-> eligiblePositions[k].feeOwedA],
            {k \in EligibleIdx : claimed[k]})
ClaimedFeesB ==
    SumOver([k \in EligibleIdx |-> eligiblePositions[k].feeOwedB],
            {k \in EligibleIdx : claimed[k]})

\* C1: a failed step of one position never aborts the batch. Every position
\* the loop has passed has an outcome of its own, and when the run is done
\* every eligible position has been attempted, whatever failed before it; the
\* success count is the number of positions that completed, and with no
\* position filtered out the failed count is the number that did not.
C1_FailureNeverAbortsBatch ==
    /\ \A k \in EligibleIdx : k < i => opResult[k] \in EndedOutcomes
    /\ pc = "done" =>
         /\ \A k \in EligibleIdx : visits[k] >= 1 /\ opResult[k] \in EndedOutcomes
         /\ Len(eligiblePositions) > 0 =>
              /\ summary.successful = Cardinality(Ended({"succeeded"}))
              /\ Len(allPositions) = Len(eligiblePositions) =>
                   summary.failed
                     = Cardinality(Ended(FailedOutcomes \cup {"skipped"}))

\* C1 witness: three positions, the claim fails for the second, the first and
\* the third complete, one position is reported failed.
C1_Witness ==
    /\ pc = "done"
    /\ Len(eligiblePositions) = 3
    /\ opResult[1] = "succeeded"
    /\ opResult[2] = "failed_claim"
    /\ opResult[3] = "succeeded"
    /\ summary.failed = 1

\* An operation starts in this step.
Starts(op) == op \in inflight' /\ op \notin inflight

\* C2: the mutating operations of a run are totally ordered. At most one is
\* in flight, and it belongs to the position the loop is at; an operation
\* starts only when none is in flight, a claim before any other operation of
\* its position, a close after at most the claim, a swap after the claim
\* (claim batch) or the close (close batch); the loop moves to the next
\* position only when nothing is in flight.
C2_TotalOrder ==
    /\ [](/\ Cardinality(inflight) <= 1
          /\ \A op \in inflight : op[1] = i /\ opResult[i] = "pending")
    /\ [][/\ \A op \in inflight' :
               Starts(op) =>
                 /\ inflight = {}
                 /\ i' = i
                 /\ op[2] = "claim" => invoked = {}
                 /\ op[2] \in CloseKinds => invoked \subseteq {"claim"}
                 /\ op[2] = "swap" =>
                      IF flow \in CloseFlows
                      THEN invoked \cap CloseKinds # {} /\ pc = "swap"
                      ELSE invoked = {"claim"} /\ claimed[i]
          /\ i' >= i
          /\ i' # i => inflight' = {}]_vars

\* C2 witness: the swap of the second position is in flight, after its claim
\* and its withdraw-and-close.
C2_Witness ==
    /\ inflight = {<<2, "swap">>}
    /\ invoked = {"claim", "withdrawClose", "swap"}

\* C3: in a close batch a position whose claim failed has no close operation:
\* a close operation is invoked for a position with recorded fees only after
\* its claim returned, a failed claim ends the position's iteration with the
\* claim as its only operation, no operation is in flight for it afterwards,
\* and it is not counted as successful.
C3_FailedClaimStopsPosition ==
    flow \in CloseFlows =>
      /\ (invoked \cap CloseKinds # {} /\ HasClaimableFees(eligiblePositions[i]))
           => claimed[i]
      /\ pc = "claimThrew" => invoked = {"claim"}
      /\ \A k \in EligibleIdx :
           opResult[k] = "failed_claim" =>
             /\ k < i
             /\ ~claimed[k]
             /\ \A op \in inflight : op[1] # k
      /\ successfulOperations = Cardinality(Ended({"succeeded"}))

\* C3 witness: a close batch has ended in which a claim failed.
C3_Witness ==
    /\ flow \in CloseFlows
    /\ pc = "done"
    /\ \E k \in EligibleIdx : opResult[k] = "failed_claim"

\* C4: one invocation of the claim operation sends at most one claim
\* transaction to the ledger.
C4_AtMostOneClaimTransaction == claimTxSent <= 1

\* C5: the claim operation is invoked only for a position whose recorded
\* fees are greater than zero.
C5_ClaimOnlyWithFees ==
    "claim" \in invoked => HasClaimableFees(eligiblePositions[i])

\* C6: at the end of a close batch, the fees of every position whose claim
\* succeeded and whose close failed are in the fee totals the run returns.
C6_ClaimedFeesReturned ==
    (/\ pc = "done"
     /\ flow \in CloseFlows
     /\ \E k \in EligibleIdx : claimed[k] /\ opResult[k] = "failed_close")
    => /\ result.success
       /\ result.feesA = ClaimedFeesA
       /\ result.feesB = ClaimedFeesB

\* C7: every batch run terminates, and it visits each eligible position
\* exactly once, in list order: the run reaches its end, the position visited
\* is always the one at the loop index, which only moves forward one position
\* at a time, and at the end every eligible position has been visited once and
\* has ended succeeded, failed or skipped.
C7_TerminatesVisitingEachOnce ==
    /\ <>(pc = "done")
    /\ [](pc = "done" =>
            \A k \in EligibleIdx :
              visits[k] = 1 /\ opResult[k] \in EndedOutcomes)
    /\ [](\A k \in Indices : visits[k] <= 1 /\ (visits[k] = 1 => k <= i))
    /\ [][/\ i' \in {i, i + 1}
          /\ visits' # visits =>
               /\ \A k \in EligibleIdx : k < i => visits[k] = 1
               /\ visits' = [visits EXCEPT ![i] = 1]]_vars

\* C7 witness: a run over three positions has ended, one position succeeded,
\* one failed and one was skipped.
C7_Witness ==
    /\ pc = "done"
    /\ Len(eligiblePositions) = 3
    /\ Ended({"succeeded"}) # {}
    /\ Ended(FailedOutcomes) # {}
    /\ Ended({"skipped"}) # {}
    /\ \A k \in EligibleIdx : visits[k] = 1

\* C8: at the end of a close batch the processed count is the number of
\* eligible positions, it is the sum of the succeeded and the failed counts,
\* and the failed count is the number of eligible positions that were
\* attempted and did not complete (a missing NFT reference counted as a
\* failed step); a position removed by the deposit filter is in neither count.
C8_SummaryCountsEligibleOnly ==
    (pc = "done" /\ flow \in CloseFlows /\ Len(eligiblePositions) > 0) =>
      /\ summary.processed = summary.successful + summary.failed
      /\ summary.processed = Len(eligiblePositions)
      /\ summary.failed = Cardinality(Ended(FailedOutcomes \cup {"skipped"}))

\* C9: a position without an NFT account reference is skipped. No operation
\* is invoked or in flight for it, its claim never returns, it ends skipped
\* and is not counted as successful, and the loop goes on: every position
\* after it is attempted before the run ends.
C9_MissingNftSkipped ==
    /\ (i \in EligibleIdx /\ MissingNft(eligiblePositions[i])) =>
         invoked = {} /\ inflight = {}
    /\ \A k \in EligibleIdx :
         MissingNft(eligiblePositions[k]) =>
           /\ opResult[k] \in {"pending", "skipped"}
           /\ ~claimed[k]
           /\ k < i => opResult[k] = "skipped"
           /\ pc = "done" => \A j \in EligibleIdx : j > k => visits[j] = 1
    /\ successfulOperations = Cardinality(Ended({"succeeded"}))

\* C9 witness: a run has ended in which a position was skipped for its
\* missing NFT reference and the position after it completed.
C9_Witness ==
    /\ pc = "done"
    /\ \E k \in EligibleIdx :
         /\ k < Len(eligiblePositions)
         /\ MissingNft(eligiblePositions[k])
         /\ opResult[k] = "skipped"
         /\ opResult[k + 1] = "succeeded"

\* A key slot holds a usable key: it is set, it decodes to 64 bytes (each in
\* 0..255 in the array format) and the keypair can be built from it.
UsableKey(k) ==
    /\ k.set
    /\ k.decodes
    /\ k.len = 64
    /\ k.format = "array" => k.inRange
    /\ k.keypairOk

UsableSlots(e) == {s \in 1..NumKeySlots : UsableKey(e.keys[s])}

\* C10: construction fails exactly when the RPC endpoint is missing or no
\* key slot holds a usable key, and then nothing was discovered, read or
\* sent: the command exits. Otherwise construction succeeds with exactly the
\* usable keys as wallets, in slot order, whatever the other slots hold.
C10_ConfigurationFailsFast ==
    /\ ctor # "new" =>
         (ctor = "threw" <=> (~env.rpcUrl \/ UsableSlots(env) = {}))
    /\ ctor = "threw" =>
         /\ pc = "exit"
         /\ ctorError # ""
         /\ ~discovered
         /\ ~walletInfoFetched
         /\ inflight = {}
         /\ allPositions = <<>>
    /\ ctor = "constructed" =>
         /\ Len(availableWallets) = Cardinality(UsableSlots(env))
         /\ \A n \in 1..Len(availableWallets) :
              /\ availableWallets[n] \in UsableSlots(env)
              /\ n > 1 => availableWallets[n - 1] < availableWallets[n]
    /\ (discovered \/ walletInfoFetched) => ctor = "constructed"

\* C10 witness: the RPC endpoint is set, a key is set and none is usable:
\* construction has failed and the command has exited.
C10_Witness ==
    /\ ctor = "threw"
    /\ pc = "exit"
    /\ env.rpcUrl
    /\ \E s \in 1..NumKeySlots : env.keys[s].set
    /\ ctorError = "No valid private keys found in environment variables"

\* The last result of getCurrentFeeRate was computed from the fee schedule:
\* the pool state has one and the clock could be read.
FromSchedule(r) ==
    /\ poolState.kind = "scheduled"
    /\ IsTimestamp(poolState) \/ r.slotOk

\* C15: every result of getCurrentFeeRate is a percentage from 0 to 100.
C15_RateWithinZeroAndHundred ==
    feeRate # None =>
      /\ feeRate[1].rate >= 0
      /\ feeRate[1].rate <= 100 * PercentUnit

\* C16: in linear mode the rate computed from the schedule does not increase
\* as time passes, and it is never below 0: of two successive results for
\* one schedule the later is the smaller or equal one.
C16_LinearNonIncreasing ==
    (/\ feeRate # None
     /\ poolState.baseFee.feeSchedulerMode = 0
     /\ FromSchedule(feeRate[1]))
    => /\ feeRate[1].rate >= 0
       /\ (prevFeeRate # None /\ FromSchedule(prevFeeRate[1])) =>
            /\ prevFeeRate[1].at.timestamp <= feeRate[1].at.timestamp
            /\ feeRate[1].rate <= prevFeeRate[1].rate

\* C16 witness: a linear schedule gave 50 percent and, one period later, 45
\* percent.
C16_Witness ==
    /\ poolState.kind = "scheduled"
    /\ poolState.baseFee.feeSchedulerMode = 0
    /\ prevFeeRate # None
    /\ feeRate # None
    /\ prevFeeRate[1].at = ClockAt(0)
    /\ feeRate[1].at = ClockAt(3600)
    /\ prevFeeRate[1].rate = 50 * PercentUnit
    /\ feeRate[1].rate = 45 * PercentUnit

\* The clock one period of the schedule b earlier.
OnePeriodEarlier(clk, b) ==
    [timestamp |-> clk.timestamp - PeriodFrequency(b),
     slot |-> clk.slot - PeriodFrequency(b)]

\* C17: in exponential mode, at every time at least one period past the
\* activation point, the rate is at most the rate one period earlier,
\* whatever the reduction factor.
C17_ExponentialNonIncreasing ==
    (/\ feeRate # None
     /\ feeRate[1].at = clock
     /\ poolState.baseFee.feeSchedulerMode = 1
     /\ FromSchedule(feeRate[1])
     /\ PeriodFrequency(poolState.baseFee) > 0
     /\ Elapsed(poolState, clock) >= PeriodFrequency(poolState.baseFee))
    => feeRate[1].rate
         <= GetCurrentFeeRate(poolState,
                              OnePeriodEarlier(clock, poolState.baseFee), TRUE)

\* C18: the periods applied never exceed numberOfPeriod and the rate is never
\* negative; of two successive results computed from one schedule, the first
\* when numberOfPeriod periods had elapsed, the second is the same rate.
C18_PeriodsCapped ==
    (feeRate # None /\ FromSchedule(feeRate[1])) =>
      /\ EffectivePeriods(poolState, feeRate[1].at)
           <= poolState.baseFee.numberOfPeriod
      /\ feeRate[1].rate >= 0
      /\ (/\ prevFeeRate # None
          /\ FromSchedule(prevFeeRate[1])
          /\ ElapsedPeriods(poolState, prevFeeRate[1].at)
               >= poolState.baseFee.numberOfPeriod)
         => feeRate[1].rate = prevFeeRate[1].rate

\* C18 witness: a linear schedule of two periods gave 40 percent when its two
\* periods had elapsed and gives 40 percent twenty periods after activation.
C18_Witness ==
    /\ poolState.kind = "scheduled"
    /\ poolState.baseFee = BaseFee(500000000, 2, 50000000, Some(3600), 0)
    /\ prevFeeRate # None
    /\ feeRate # None
    /\ prevFeeRate[1].at = ClockAt(7200)
    /\ feeRate[1].at = ClockAt(72000)
    /\ prevFeeRate[1].rate = 40 * PercentUnit
    /\ feeRate[1].rate = 40 * PercentUnit

\* The reference formula of the linear mode, in percent units:
\* max(0, cliff - min(floor(elapsed / periodLength), numberOfPeriod)
\*                  * reductionFactor) / 1_000_000_000 * 100,
\* the elapsed periods being 0 when periodLength <= 0.
ReferenceLinearRate(cliff, periods, reduction, periodLength, elapsed) ==
    LET elapsedPeriods ==
          IF periodLength <= 0 THEN 0
          ELSE CHOOSE q \in -100..100 :
                 q * periodLength <= elapsed /\ elapsed < (q + 1) * periodLength
        applied == IF elapsedPeriods < periods THEN elapsedPeriods ELSE periods
        numerator == cliff - applied * reduction
    IN  (IF numerator > 0 THEN numerator ELSE 0)
          \div (FEE_DENOMINATOR \div (100 * PercentUnit))

\* The schedule of the scenario: cliff 500000000, 10 periods, reduction
\* 50000000, period 3600.
ScenarioSchedule == BaseFee(500000000, 10, 50000000, Some(3600), 0)

\* C19: in linear mode a result computed from a schedule with a period
\* length equals the reference formula; the scenario schedule gives 45
\* percent at 3600 elapsed and 0 percent at 36000 elapsed.
C19_LinearMatchesReference ==
    /\ (/\ feeRate # None
        /\ poolState.baseFee.feeSchedulerMode = 0
        /\ poolState.baseFee.periodFrequency # None
        /\ FromSchedule(feeRate[1]))
       => feeRate[1].rate
            = ReferenceLinearRate(poolState.baseFee.cliffFeeNumerator,
                                  poolState.baseFee.numberOfPeriod,
                                  poolState.baseFee.reductionFactor,
                                  poolState.baseFee.periodFrequency[1],
                                  Elapsed(poolState, feeRate[1].at))
    /\ (/\ feeRate # None
        /\ poolState.kind = "scheduled"
        /\ poolState.baseFee = ScenarioSchedule
        /\ FromSchedule(feeRate[1]))
       => /\ feeRate[1].at = ClockAt(3600) => feeRate[1].rate = 45 * PercentUnit
          /\ feeRate[1].at = ClockAt(36000) => feeRate[1].rate = 0

\* C19 witness: the scenario schedule gave 45 percent at 3600 elapsed and
\* gives 0 percent at 36000 elapsed.
C19_Witness ==
    /\ poolState.kind = "scheduled"
    /\ poolState.baseFee = ScenarioSchedule
    /\ prevFeeRate # None
    /\ feeRate # None
    /\ prevFeeRate[1].at = ClockAt(3600)
    /\ prevFeeRate[1].rate = 45 * PercentUnit
    /\ feeRate[1].at = ClockAt(36000)
    /\ feeRate[1].rate = 0

\* C20: getCurrentFeeRate always returns a rate. Without fee-schedule data
\* (a pool state without base fee, or no pool state) and when the slot fetch
\* of a slot-based schedule fails the rate is 25 percent; with an unknown
\* scheduler mode it is the cliff rate, whatever time has elapsed.
C20_FallbackRates ==
    /\ pc = "feeRate" => ENABLED GetCurrentFeeRateCall
    /\ feeRate # None =>
         /\ poolState.kind # "scheduled" => feeRate[1].rate = 250000000
         /\ (/\ poolState.kind = "scheduled"
             /\ ~IsTimestamp(poolState)
             /\ ~feeRate[1].slotOk)
            => feeRate[1].rate = 250000000
         /\ (/\ FromSchedule(feeRate[1])
             /\ poolState.baseFee.feeSchedulerMode \notin {0, 1})
            => feeRate[1].rate = poolState.baseFee.cliffFeeNumerator

\* C20 witness: the slot fetch failed for a slot-based schedule whose own
\* rate is 50 percent, and the result is 25 percent.
C20_Witness ==
    /\ feeRate # None
    /\ poolState.kind = "scheduled"
    /\ ~IsTimestamp(poolState)
    /\ ~feeRate[1].slotOk
    /\ GetCurrentFeeRate(poolState, feeRate[1].at, TRUE) = 50 * PercentUnit
    /\ feeRate[1].rate = 25 * PercentUnit

\* The elements of all at the indices in kept, in the order of all.
SubListAt(all, kept) ==
    LET indexed == [j \in 1..Len(all) |-> <<j, all[j]>>]
        IsKept(x) == x[1] \in kept
        selected == SelectSeq(indexed, IsKept)
    IN  [k \in 1..Len(selected) |-> selected[k][2]]

\* The indices in kept, in increasing order.
IndicesOf(all, kept) == SubListAt([j \in 1..Len(all) |-> j], kept)

\* C12: with the deposit ceiling enabled, the eligible list of a close batch
\* is the discovered list without the positions whose depositA + depositB
\* exceeds the ceiling, the USD ceiling being brought to the deposits' unit
\* with the fetched price (deposit * price <= ceiling); only the position at
\* the loop index, an eligible one, has operations in flight.
C12_DepositCeilingInclusive ==
    (flow \in CloseFlows /\ discovered /\ solPrice # None) =>
      /\ maxDeposit # None
      /\ eligiblePositions
           = SubListAt(allPositions,
                       {j \in 1..Len(allPositions) :
                          (allPositions[j].depositA + allPositions[j].depositB)
                            * solPrice[1] <= maxDeposit[1]})
      /\ \A op \in inflight :
           /\ op[1] \in EligibleIdx
           /\ (eligiblePositions[op[1]].depositA
                 + eligiblePositions[op[1]].depositB) * solPrice[1]
                <= maxDeposit[1]

\* C12 witness: a close batch has ended in which a position with a deposit
\* sum equal to the ceiling was kept and closed and another, whose deposit
\* sum exceeds the ceiling, was filtered out.
C12_Witness ==
    /\ flow \in CloseFlows
    /\ pc = "done"
    /\ solPrice # None
    /\ maxDeposit # None
    /\ Len(eligiblePositions) < Len(allPositions)
    /\ \E k \in EligibleIdx :
         /\ (eligiblePositions[k].depositA + eligiblePositions[k].depositB)
              * solPrice[1] = maxDeposit[1]
         /\ opResult[k] = "succeeded"

\* C13: the eligible list of the claim batch is the discovered list without
\* the positions whose feeOwedA + feeOwedB is below the floor, a fee sum
\* equal to the floor being kept; a claim is invoked only for the position at
\* the loop index, whose fee sum is at least the floor.
C13_MinFeeFloorInclusive ==
    (flow = "claimAllFees" /\ discovered) =>
      /\ eligiblePositions
           = SubListAt(allPositions,
                       {j \in 1..Len(allPositions) :
                          allPositions[j].feeOwedA + allPositions[j].feeOwedB
                            >= minFeeThreshold})
      /\ "claim" \in invoked =>
           /\ i \in EligibleIdx
           /\ eligiblePositions[i].feeOwedA + eligiblePositions[i].feeOwedB
                >= minFeeThreshold
      /\ \A op \in inflight : op[1] = i

\* C13 witness: a claim batch with a floor has ended; a position one unit
\* below the floor was filtered out and one with a fee sum equal to the floor
\* was kept and claimed.
C13_Witness ==
    /\ flow = "claimAllFees"
    /\ pc = "done"
    /\ minFeeThreshold > 0
    /\ \E j \in 1..Len(allPositions) :
         allPositions[j].feeOwedA + allPositions[j].feeOwedB
           = minFeeThreshold - 1
    /\ \A k \in EligibleIdx :
         /\ eligiblePositions[k].feeOwedA + eligiblePositions[k].feeOwedB
              = minFeeThreshold
         /\ claimed[k]
    /\ Len(eligiblePositions) > 0

\* Indices of the discovered list of handleCloseAll.
UserIdx == 1..Len(userPositions)

\* The positions whose pool state was fetched and whose pool's current fee
\* rate is at most the ceiling; every position when the ceiling is off.
RateKept ==
    {j \in UserIdx :
       maxFeeRate # None =>
         /\ pools[j].fetched
         /\ GetCurrentFeeRate(pools[j].state, clock, pools[j].slotOk)
              <= maxFeeRate[1] * PercentUnit}

\* The positions whose deposit sum is at most the ceiling; every position
\* when the ceiling is off.
DepositKept ==
    {j \in UserIdx :
       menuMaxDeposit # None =>
         userPositions[j].depositA + userPositions[j].depositB
           <= menuMaxDeposit[1]}

FiltersAgree ==
    discovered =>
      LET byRate == IndicesOf(userPositions, RateKept)
          byDeposit == IndicesOf(userPositions, DepositKept)
      IN  /\ eligiblePositions
               = SubListAt(userPositions, RateKept \cap DepositKept)
          /\ eligiblePositions
               = SubListAt(SubListAt(userPositions, RateKept),
                           {k \in 1..Len(byRate) : byRate[k] \in DepositKept})
          /\ eligiblePositions
               = SubListAt(SubListAt(userPositions, DepositKept),
                           {k \in 1..Len(byDeposit) : byDeposit[k] \in RateKept})

\* C14: the eligible list of the interactive close (fee-rate ceiling, then
\* deposit ceiling on the survivors) always equals the list both ceilings
\* give in one pass and the list they give in the opposite order, which is
\* the sub-list of the discovered list at the kept indices in the discovered
\* order; and no step changes the discovered list once it is read.
C14_FiltersCommute ==
    /\ []FiltersAgree
    /\ [][discovered => userPositions' = userPositions]_vars

\* C14 witness: both ceilings are on and a batch has ended in which the
\* fee-rate ceiling alone and the deposit ceiling alone each dropped a
\* position the other kept, and a position passing both was closed.
C14_Witness ==
    /\ pc = "done"
    /\ maxFeeRate # None
    /\ menuMaxDeposit # None
    /\ RateKept \ DepositKept # {}
    /\ DepositKept \ RateKept # {}
    /\ Len(eligiblePositions) = 1
    /\ opResult[1] = "succeeded"

\* Invocations of fn begun so far.
Started == Len(fnCalls) + (IF fnRunning THEN 1 ELSE 0)

\* Failed invocations of fn so far.
FailedCalls == {k \in 1..Len(fnCalls) : ~fnCalls[k].ok}

LastCall == fnCalls[Len(fnCalls)]

\* retry has raised.
Raised == retryOutcome # None /\ ~retryOutcome[1].ok

\* What the claim says of retry apart from the error it raises: at most
\* maxAttempts invocations, each begun after the one before has failed and
\* its wait is over, none after a success; the k-th failure with
\* k < maxAttempts is followed by a wait of delay * k and the last one by
\* none; a success is returned as it is; retry raises only after maxAttempts
\* failures.
RetryDiscipline ==
    /\ Started <= retryArgs.maxAttempts
    /\ \A k \in 1..(Len(fnCalls) - 1) : ~fnCalls[k].ok
    /\ fnRunning =>
         /\ retryOutcome = None
         /\ FailedCalls = 1..Len(fnCalls)
         /\ Len(sleeps) = Len(fnCalls)
         /\ ~Sleeping
    /\ sleeps = [k \in 1..Len(sleeps) |-> retryArgs.delay * k]
    /\ Len(sleeps) = Min(Cardinality(FailedCalls), retryArgs.maxAttempts - 1)
    /\ retryOutcome # None =>
         /\ ~fnRunning
         /\ Len(fnCalls) >= 1
         /\ LastCall.ok => retryOutcome[1] = LastCall
         /\ ~LastCall.ok =>
              /\ Raised
              /\ Len(fnCalls) = retryArgs.maxAttempts
              /\ Len(sleeps) = retryArgs.maxAttempts - 1

\* C24: retry(fn, maxAttempts, delay) with maxAttempts >= 1 keeps the
\* discipline above, and when all maxAttempts invocations fail it raises the
\* error of the last invocation.
C24_RaisesLastError ==
    (pc = "retry" /\ retryArgs.maxAttempts >= 1) =>
      /\ RetryDiscipline
      /\ Raised => retryOutcome[1] = LastCall

\* C27: fetchSOLPrice makes at most 2 request attempts; whatever retry
\* returned or raised, fetchSOLPrice returns a value; the value is the
\* positive price of the attempt that succeeded, or the fallback 200 when
\* both attempts failed.
C27_PriceNeverRaises ==
    /\ pc = "price" => Started <= 2
    /\ (pc = "price" /\ retryOutcome # None) => ENABLED FetchSOLPriceReturn
    /\ pc = "priceDone" =>
         /\ priceResult # None
         /\ Len(fnCalls) \in 1..2
         /\ IF LastCall.ok
            THEN /\ priceResult[1] = LastCall.value
                 /\ priceResult[1] > 0
            ELSE /\ priceResult[1] = 200
                 /\ Len(fnCalls) = 2
                 /\ FailedCalls = {1, 2}

\* C27 witness: two request attempts failed, the second with a non-positive
\* price, and fetchSOLPrice returned 200.
C27_Witness ==
    /\ pc = "priceDone"
    /\ Len(fnCalls) = 2
    /\ FailedCalls = {1, 2}
    /\ fnCalls[1].value = 500
    /\ fnCalls[2].value = 4
    /\ sleeps = <<1000>>
    /\ priceResult = Some(200)

\* The close operations in flight.
ClosesInFlight == {op \in inflight : op[2] \in CloseKinds}

\* C30: in the close batch a position that reaches step 2 gets exactly one
\* close operation: the combined withdraw-and-close when the state fetched in
\* its iteration has non-zero unlocked, vested or permanently locked
\* liquidity, the close-only operation otherwise, a state that could not be
\* fetched included.
C30_CloseOperationByLiquidity ==
    /\ \A op \in ClosesInFlight :
         /\ op[1] = i
         /\ op[2] = "withdrawClose" <=>
              /\ positionState.fetched
              /\ \/ positionState.unlocked
                 \/ positionState.vested
                 \/ positionState.permanentLocked
    /\ Cardinality(invoked \cap CloseKinds) <= 1
    /\ pc = "close" =>
         /\ ClosesInFlight = {}
         /\ invoked \cap CloseKinds = {}
         /\ ENABLED CloseInvoke
    /\ pc = "closing" =>
         /\ Cardinality(ClosesInFlight) = 1
         /\ Cardinality(invoked \cap CloseKinds) = 1

\* C30 witness: the first position of the batch was closed and the combined
\* operation is in flight for the second, whose only non-zero liquidity is
\* the permanently locked one.
C30_Witness ==
    /\ flow = "closeAllPositions"
    /\ pc = "closing"
    /\ i = 2
    /\ opResult[1] = "succeeded"
    /\ positionState = PositionState(TRUE, FALSE, FALSE, TRUE)
    /\ inflight = {<<2, "withdrawClose">>}

\* The records of the swap step that carry the mint of token t.
RecordsOf(t) ==
    {k \in DOMAIN swapResults : swapResults[k].mint = swapTokenMints[t]}

\* Token t is a non-reference token with a positive wallet balance.
Swappable(t) ==
    /\ swapTokenMints[t] # SOL_MINT
    /\ holdings[t].account
    /\ holdings[t].balance > 0

\* Both quote requests for token t gave a quote.
QuotesAvailable(t) ==
    /\ holdings[t].checkQuote # None
    /\ holdings[t].execQuote # None

\* Token t met an error or a failed swap: its account is missing, a quote
\* request failed, or the swap that was due for it failed.
TokenFailed(t) ==
    /\ swapTokenMints[t] # SOL_MINT
    /\ \/ ~holdings[t].account
       \/ /\ holdings[t].balance > 0
          /\ \/ holdings[t].checkQuote = None
             \/ /\ holdings[t].checkQuote[1] >= swapThreshold
                /\ \/ holdings[t].execQuote = None
                   \/ ~holdings[t].swapOk

\* C21: in the swap step every token gets its turn whatever happened to the
\* tokens before it (whether the swap is invoked for a token depends on that
\* token alone), and a token that met an error or a failed swap has exactly
\* one record, unsuccessful and carrying its own mint.
C21_FailureRecordedPerToken ==
    pc = "swapDone" =>
      \A t \in 1..2 :
        /\ t \in swapInvoked <=>
             /\ Swappable(t)
             /\ QuotesAvailable(t)
             /\ holdings[t].checkQuote[1] >= swapThreshold
        /\ TokenFailed(t) =>
             /\ Cardinality(RecordsOf(t)) = 1
             /\ \A k \in RecordsOf(t) : ~swapResults[k].success

\* C22: swapTokensToSOL never invokes the swap for the reference asset and
\* records nothing for it; for a non-reference token with a positive balance
\* whose quoted value is below the threshold (150000 when the caller passes
\* none) or for which a quote is unavailable, the swap is never invoked and
\* one record, skipped or failed, is kept; when the quoted value is at or
\* above the threshold the swap is invoked.
C22_SwapOnlyAtOrAboveThreshold ==
    swapCaller = "swapTokensToSOL" =>
      /\ swapThreshold = 150000
      /\ \A t \in swapInvoked :
           /\ Swappable(t)
           /\ QuotesAvailable(t)
           /\ holdings[t].checkQuote[1] >= swapThreshold
      /\ pc = "swapDone" =>
           \A t \in 1..2 :
             /\ swapTokenMints[t] = SOL_MINT =>
                  /\ t \notin swapInvoked
                  /\ RecordsOf(t) = {}
             /\ Swappable(t) =>
                  IF /\ QuotesAvailable(t)
                     /\ holdings[t].checkQuote[1] >= swapThreshold
                  THEN t \in swapInvoked
                  ELSE /\ t \notin swapInvoked
                       /\ Cardinality(RecordsOf(t)) = 1
                       /\ \A k \in RecordsOf(t) :
                            /\ ~swapResults[k].success
                            /\ \/ swapResults[k].skipped
                               \/ swapResults[k].error # ""

\* C22 witness: swapTokensToSOL swapped a token quoted at exactly the
\* threshold and skipped one quoted below it.
C22_Witness ==
    /\ swapCaller = "swapTokensToSOL"
    /\ pc = "swapDone"
    /\ holdings[1].checkQuote = Some(150000)
    /\ holdings[2].checkQuote = Some(100000)
    /\ Swappable(2)
    /\ swapInvoked = {1}
    /\ Len(swapResults) = 2
    /\ swapResults[2].skipped

\* C23: in close-all-fast the value given as --min-value is the swap
\* threshold: the swap is invoked only for tokens whose quoted value reaches
\* it, and a token below it is recorded as skipped.
C23_MinValueIsSwapThreshold ==
    (swapCaller = "swapTokensToSOL" /\ flow = "closeAllPositionsOptimized") =>
      \A t \in swapInvoked :
        holdings[t].checkQuote[1] >= minValueLamports

\* The list getUserPositions returned.
ReturnedList == discReturned[1]

\* Record k of the enumeration is processed without error.
ProcessedOk(k) == Records[k].pool = "ok"

\* The quote calls discovery made for token tok of position k.
QuoteCallsFor(k, tok) ==
    {c \in DOMAIN quoteCalls :
        quoteCalls[c].position = k /\ quoteCalls[c].token = tok}

\* C25: getUserPositions returns exactly the records of the enumeration that
\* were processed without error, in the order of the enumeration and each
\* once: a record whose pool state is missing or whose processing throws is
\* omitted and the records after it are still processed; a position without
\* liquidity and without fees is returned like any other.
C25_DiscoveryIsolatesFailures ==
    pc = "discDone" =>
      /\ discReturned # None
      /\ \A j \in DOMAIN ReturnedList :
           /\ ReturnedList[j].publicKey \in DOMAIN Records
           /\ ProcessedOk(ReturnedList[j].publicKey)
      /\ \A k \in DOMAIN Records :
           ProcessedOk(k) => \E j \in DOMAIN ReturnedList : ReturnedList[j].publicKey = k
      /\ \A j1, j2 \in DOMAIN ReturnedList :
           j1 < j2 => ReturnedList[j1].publicKey < ReturnedList[j2].publicKey

\* C25 witness: the first record has no pool state, the second has neither
\* liquidity nor fees, the third fails with an error and is omitted; the
\* second is returned.
C25_Witness ==
    /\ pc = "discDone"
    /\ Len(Records) = 3
    /\ Records[1].pool = "missing"
    /\ Records[2] = LedgerRecord("ok", "B", 0, 0, 0, 0)
    /\ Records[3].pool = "throws"
    /\ ReturnedList = <<PositionRecord(2, 0, 0, 0, 0)>>

\* C26: getQuote never raises: every call returns, with null when the
\* request failed (no route, timeout, transport error); in discovery the
\* position whose deposit quote was unavailable is pushed with deposit 0 and
\* the loop goes on to the list's return.
C26_QuoteNeverRaises ==
    /\ \A c \in DOMAIN quoteCalls :
         /\ quoteCalls[c].outcome.ok
         /\ quoteCalls[c].response.kind # "ok"
              => quoteCalls[c].outcome.value = None
         /\ quoteCalls[c].response.kind = "ok"
              => quoteCalls[c].outcome.value = Some(quoteCalls[c].response.outAmount)
         /\ quoteCalls[c].outcome.value = None =>
              \E j \in DOMAIN positions :
                /\ positions[j].publicKey = quoteCalls[c].position
                /\ positions[j].depositB = 0
    /\ pc = "discQuote" => ENABLED DepositQuoteSettles
    /\ pc = "discLoop" =>
         ENABLED ProcessPosition \/ ENABLED GetUserPositionsReturn
    /\ pc = "discDone" =>
         \A c \in DOMAIN quoteCalls :
           \E j \in DOMAIN ReturnedList :
             ReturnedList[j].publicKey = quoteCalls[c].position

\* C26 witness: the deposit quote of the first position timed out; it was
\* returned with deposit 0, and so was the position after it.
C26_Witness ==
    /\ pc = "discDone"
    /\ Len(quoteCalls) = 1
    /\ quoteCalls[1].position = 1
    /\ quoteCalls[1].response.kind = "timeout"
    /\ quoteCalls[1].amount > 0
    /\ Len(ReturnedList) = 2
    /\ ReturnedList[1].publicKey = 1
    /\ ReturnedList[1].depositB = 0

\* The withdrawable amount the ledger gives for token tok of record rec.
DepositOf(rec, tok) == IF tok = "A" THEN rec.depositA ELSE rec.depositB

\* The deposit recorded for token tok.
RecordedDeposit(p, tok) == IF tok = "A" THEN p.depositA ELSE p.depositB

\* C28: for each returned position and each of its pool's two tokens, A and
\* B alike, that is not SOL and has a positive withdrawable amount, a quote
\* was requested for that amount, and when the quote succeeded the recorded
\* deposit is its value.
C28_DepositsQuotedBothTokens ==
    pc = "discDone" =>
      \A j \in DOMAIN ReturnedList : \A tok \in {"A", "B"} :
        LET k == ReturnedList[j].publicKey
        IN (Records[k].sol # tok /\ DepositOf(Records[k], tok) > 0) =>
             \E c \in QuoteCallsFor(k, tok) :
               /\ quoteCalls[c].amount = DepositOf(Records[k], tok)
               /\ quoteCalls[c].outcome.value # None =>
                    RecordedDeposit(ReturnedList[j], tok)
                      = ToSOL(quoteCalls[c].outcome.value[1])

\* C29: the fee recorded for a token is the raw unclaimed fee when the token
\* is SOL and 0 when it is not; it is never negative; the only quotes
\* discovery requests are for deposits (at most one per position, for the
\* withdrawable amount of token B).
C29_FeesOnlyForReferenceAsset ==
    /\ \A j \in DOMAIN positions :
         LET k == positions[j].publicKey
         IN /\ positions[j].feeOwedA =
                 (IF Records[k].sol = "A" THEN Records[k].rawFeeOwedA ELSE 0)
            /\ positions[j].feeOwedB =
                 (IF Records[k].sol = "B" THEN Records[k].rawFeeOwedB ELSE 0)
            /\ positions[j].feeOwedA >= 0
            /\ positions[j].feeOwedB >= 0
    /\ \A c \in DOMAIN quoteCalls :
         /\ quoteCalls[c].token = "B"
         /\ quoteCalls[c].amount = Records[quoteCalls[c].position].depositB
         /\ Cardinality(QuoteCallsFor(quoteCalls[c].position, "B")) = 1

\* C29 witness: a position of a pool whose token B is SOL was returned with
\* the raw fee of token B and no fee for token A, whose raw fee is positive;
\* a position of a pool without SOL was returned with no fee at all.
C29_Witness ==
    /\ pc = "discDone"
    /\ Len(ReturnedList) = 2
    /\ Records[1].sol = "B"
    /\ Records[1].rawFeeOwedA = 3
    /\ ReturnedList[1].feeOwedA = 0
    /\ ReturnedList[1].feeOwedB = 5
    /\ Records[2].sol = "none"
    /\ Records[2].rawFeeOwedA = 3
    /\ ReturnedList[2].feeOwedA = 0
    /\ Len(quoteCalls) = 1

\* C35: the fee numerator getCurrentFeeRate computes from a schedule never
\* exceeds the schedule's cliffFeeNumerator, whatever the current time or
\* slot, times before the activation point included.
C35_NumeratorAtMostCliff ==
    (feeRate # None /\ FromSchedule(feeRate[1])) =>
      CurrentFeeNumerator(poolState, feeRate[1].at)
        <= poolState.baseFee.cliffFeeNumerator

\* C37: every swap swapTokensToSOL executes runs on a quote whose outAmount
\* is at least the threshold, whatever the quoting service answers between
\* the worthiness check and the execution.
C37_ExecutedQuoteMeetsThreshold ==
    swapCaller = "swapTokensToSOL" =>
      \A t \in swapInvoked :
        /\ holdings[t].execQuote # None
        /\ holdings[t].execQuote[1] >= swapThreshold

\* The record of the enumeration behind position k of the close batch that
\* runs on the list discovery returned.
LedgerRecordOf(k) == Records[discReturned[1][k].publicKey]

\* C36: in the close batch a position with a positive raw unclaimed fee in
\* either pool token has the claim operation invoked before its
\* withdraw-and-close or close-only operation is invoked.
C36_ClaimBeforeCloseWhenFeesOwed ==
    (discReturned # None /\ pc = "closing") =>
      ((LedgerRecordOf(i).rawFeeOwedA > 0 \/ LedgerRecordOf(i).rawFeeOwedB > 0)
         => "claim" \in invoked)

\* C31: in a close batch with the swap requested, a position whose close
\* operation succeeded, withdraw-and-close or close-only, has the swap step
\* entered next (swapTokensToSOL goes through the pool's two tokens); without
\* the swap request the swap step is never entered.
C31_SwapStepAfterEveryClose ==
    [][ /\ (/\ flow \in CloseFlows
            /\ swapToSOL
            /\ pc = "closing"
            /\ lastSignature' = Some(<<i, "close">>))
           => pc' = "swap"
        /\ ~swapToSOL => pc' \notin {"swap", "swapping"} ]_vars

\* C32: when the pool-state fetch fails on the first attempt and would
\* succeed on the second, getPoolInfo invokes it again and returns the pool
\* info.
C32_TransientFetchFailureRetried ==
    (/\ pc = "poolInfoDone"
     /\ poolRequest.valid
     /\ poolRequest.plan[1] = "throws"
     /\ poolRequest.plan[2] = "ok")
      => /\ Len(fnCalls) = 2
         /\ poolInfoResult = Some(Returns("poolInfo"))

\* A method of the running claimFees call was confirmed.
SomeMethodConfirmed ==
    \E k \in DOMAIN claimLog : claimLog[k].outcome = "confirmed"

\* C33: claimFees tries the primary method first and the alternative one
\* only after the primary has failed; it returns a signature exactly when
\* one of the two was confirmed, and when both failed it raises one error
\* that carries the messages of both failures.
C33_ClaimStrategiesInOrder ==
    /\ Len(claimLog) <= 2
    /\ Len(claimLog) >= 1 => claimLog[1].method = "primary"
    /\ Len(claimLog) = 2 =>
         /\ claimLog[2].method = "alternative"
         /\ claimLog[1].outcome # "confirmed"
    /\ pc = "claimPrimary" => claimLog = <<>> /\ claimResult = None
    /\ pc = "claimAlternative" =>
         /\ Len(claimLog) = 1
         /\ claimLog[1].outcome # "confirmed"
         /\ claimResult = None
    /\ pc = "claimReturned" =>
         /\ claimResult # None
         /\ claimResult[1].ok
         /\ claimLog[Len(claimLog)].outcome = "confirmed"
    /\ pc = "claimThrew" =>
         /\ Len(claimLog) = 2
         /\ ~SomeMethodConfirmed
         /\ claimResult =
              Some(Throws(<<ErrorMessage(claimLog[1]), ErrorMessage(claimLog[2])>>,
                          "Error"))
    /\ claimResult # None => (claimResult[1].ok <=> SomeMethodConfirmed)

\* C33 witness: the primary method failed after its transaction was sent,
\* the alternative one failed before sending, and claimFees raises the
\* error made of both messages.
C33_Witness ==
    /\ pc = "claimThrew"
    /\ claimLog = <<Tried("primary", "failedAfterSend"),
                    Tried("alternative", "failedBeforeSend")>>
    /\ claimResult # None
    /\ ~claimResult[1].ok
    /\ Len(claimResult[1].value) = 2

\* The places of the trace that hold a remote call.
CallsOfTrace == {a \in DOMAIN trace : trace[a].kind = "call"}

\* C34: between the remote calls a batch loop makes for two different
\* positions at least one pacing delay elapses, whether the earlier
\* position succeeded, failed or was skipped.
C34_DelayBetweenPositions ==
    \A a, b \in CallsOfTrace :
        (a < b /\ trace[a].pos # trace[b].pos)
            => \E c \in (a + 1)..(b - 1) : trace[c].kind = "delay"

\* C34 witness: in the close batch the claim of the first position threw,
\* so that its iteration ended without a delay, and the state of the
\* second position was read after the delay that opens its iteration.
C34_Witness ==
    /\ pacedLoop # None
    /\ pacedLoop[1].loop = "closeAllPositions"
    /\ Len(pacedLoop[1].plans) >= 2
    /\ pacedLoop[1].plans[1].failAt = "claim"
    /\ Len(trace) >= 4
    /\ trace[2] = Call(1, "getPositionState")
    /\ trace[3] = Call(1, "claimFees")
    /\ trace[4] = Delay(StateCheckDelay)
    /\ \E b \in CallsOfTrace : trace[b].pos = 2

\* The ledger state forbids the running close operation: liquidity is left
\* for close-only; a locked position or a missing state for
\* withdraw-and-close.
CloseForbidden ==
    /\ closeCall # None
    /\ LET c == closeCall[1]
       IN IF c.op = "close"
          THEN c.position.unlocked \/ c.position.vested
               \/ c.position.permanentLocked
          ELSE c.locked \/ ~c.position.fetched \/ ~c.pool

\* C38: closePosition submits no transaction for a position whose unlocked,
\* vested and permanently locked liquidity are not all zero, and
\* removeAllLiquidityAndClosePosition submits none for a locked position or
\* when the pool or position state is unavailable; each ends with an error.
C38_CloseGuardsBeforeSubmit ==
    CloseForbidden =>
        /\ closeTxSent = 0
        /\ pc \notin {"closeOpSend", "closeOpConfirm"}
        /\ pc = "closeOpDone" => (closeResult # None /\ ~closeResult[1].ok)

\* C38 witness: closePosition was called for a position that holds only
\* permanently locked liquidity and has ended with an error, nothing sent.
C38_Witness ==
    /\ pc = "closeOpDone"
    /\ closeCall # None
    /\ closeCall[1].op = "close"
    /\ closeCall[1].position = PositionState(TRUE, FALSE, FALSE, TRUE)
    /\ closeResult # None
    /\ ~closeResult[1].ok
    /\ closeTxSent = 0

\* C39: what happens in the swap step of a position never changes its
\* outcome: no iteration ends as failed in its swap step, and in the claim
\* batch a position whose claim returned a signature is counted as
\* successful once its iteration has ended.
C39_SwapNeverChangesOutcome ==
    \A k \in EligibleIdx :
        /\ opResult[k] # "failed_swap"
        /\ (flow = "claimAllFees" /\ claimed[k] /\ opResult[k] \in EndedOutcomes)
               => opResult[k] = "succeeded"

====
